---- MODULE Spec2Model ----
(***************************************************************************)
(* A state-machine model of the oracle CLI: the file-backed session store  *)
(* (sessionManager), the multi-model runner, browser-session reattachment  *)
(* and the delayed recheck of the browser engine.                          *)
(*                                                                         *)
(* Text is a sequence of one-character strings; a session id is the text   *)
(* of its slug.  Time is in milliseconds, as Date.now() gives it.          *)
(***************************************************************************)
EXTENDS Integers, Sequences, FiniteSets, TLC

(* ------------------------------------------------------------------ *)
(* Bounds of the model                                                *)
(* ------------------------------------------------------------------ *)
\* how many session directories the store may hold
MaxSessions == 1
\* how many sessions the specification of sequential creates creates
MaxCreates == 3
\* how many create operations the interleaved-create specification runs
MaxCreators == 2
\* the longest models list of a multi-model run
MaxModels == 3
\* how many pieces the page streams an answer in
MaxChunks == 3
\* how many samples the polling path takes
MaxPolls == 4
\* how many lines the body of a remote response has
MaxLines == 3
\* how many symbols of the body a chunk carries
MaxChunkLen == 2
\* how many times the timer of a heartbeat fires
MaxTicks == 4

(* ------------------------------------------------------------------ *)
(* Constants of the session store                                     *)
(* ------------------------------------------------------------------ *)
MAX_SLUG_WORDS == 5
MIN_CUSTOM_SLUG_WORDS == 3
MAX_SLUG_WORD_LENGTH == 10
ZOMBIE_MAX_AGE_MS == 3600000
DEFAULT_SLUG == <<"s", "e", "s", "s", "i", "o", "n">>
ZOMBIE_MESSAGE == "Session marked as zombie (>60m stale)"

None == "none"
Null == [null |-> TRUE]

Digits == {"0", "1", "2", "3", "4", "5", "6", "7", "8", "9"}
Letters == {"a", "b", "c", "e", "f", "i", "n", "o", "s"}
AlnumChars == Letters \cup Digits
AllChars == AlnumChars \cup {"F", "O", " ", "!", "-"}

Min(a, b) == IF a < b THEN a ELSE b

\* String.prototype.toLowerCase on one character
toLowerCase(c) ==
  CASE c = "F" -> "f"
    [] c = "O" -> "o"
    [] OTHER -> c

\* text.match(/[...]+/g): the maximal runs of characters of `chars`
RECURSIVE Runs(_, _, _, _, _)
Runs(text, chars, i, cur, acc) ==
  IF i > Len(text)
  THEN IF cur = <<>> THEN acc ELSE Append(acc, cur)
  ELSE IF text[i] \in chars
       THEN Runs(text, chars, i + 1, Append(cur, text[i]), acc)
       ELSE Runs(text, chars, i + 1, <<>>,
                 IF cur = <<>> THEN acc ELSE Append(acc, cur))

\* Array.prototype.join('-')
RECURSIVE Join(_)
Join(words) ==
  IF Len(words) = 0 THEN <<>>
  ELSE IF Len(words) = 1 THEN words[1]
  ELSE words[1] \o <<"-">> \o Join(Tail(words))

DigitChar(d) ==
  CASE d = 0 -> "0" [] d = 1 -> "1" [] d = 2 -> "2" [] d = 3 -> "3"
    [] d = 4 -> "4" [] d = 5 -> "5" [] d = 6 -> "6" [] d = 7 -> "7"
    [] d = 8 -> "8" [] OTHER -> "9"

\* the decimal text of a positive number, as a template literal prints it
RECURSIVE NumToText(_)
NumToText(n) ==
  IF n < 10 THEN <<DigitChar(n)>>
  ELSE Append(NumToText(n \div 10), DigitChar(n % 10))

slugify(text, maxWords) ==
  LET normalized == [i \in 1..Len(text) |-> toLowerCase(text[i])]
      words == Runs(normalized, AlnumChars, 1, <<>>, <<>>)
      kept == SubSeq(words, 1, Min(Len(words), maxWords))
      trimmed == [i \in 1..Len(kept) |->
                    SubSeq(kept[i], 1, Min(Len(kept[i]), MAX_SLUG_WORD_LENGTH))]
  IN IF Len(trimmed) > 0 THEN Join(trimmed) ELSE DEFAULT_SLUG

\* slug.split('-').filter(Boolean).length
countSlugWords(slug) == Len(Runs(slug, AllChars \ {"-"}, 1, <<>>, <<>>))

\* normalizeCustomSlug without its word-count test
normalizeCustomSlugUnchecked(candidate) ==
  [ok |-> TRUE, slug |-> slugify(candidate, MAX_SLUG_WORDS)]

\* [ok |-> FALSE] stands for the thrown "Custom slug must include ..." error
normalizeCustomSlug(candidate) ==
  LET slug == slugify(candidate, MAX_SLUG_WORDS)
      wordCount == countSlugWords(slug)
  IN IF wordCount < MIN_CUSTOM_SLUG_WORDS \/ wordCount > MAX_SLUG_WORDS
     THEN [ok |-> FALSE, slug |-> slug]
     ELSE [ok |-> TRUE, slug |-> slug]

createSessionId(prompt, customSlug) ==
  IF customSlug # <<>>
  THEN normalizeCustomSlug(customSlug)
  ELSE [ok |-> TRUE, slug |-> slugify(prompt, MAX_SLUG_WORDS)]

\* `${baseSlug}-${suffix}`
suffixed(baseSlug, suffix) == baseSlug \o <<"-">> \o NumToText(suffix)

\* ensureUniqueSessionId with a single test in the place of its loop
ensureUniqueSessionIdOnce(baseSlug, existing) ==
  IF baseSlug \in existing THEN suffixed(baseSlug, 2) ELSE baseSlug

RECURSIVE uniqueLoop(_, _, _, _)
uniqueLoop(baseSlug, candidate, suffix, existing) ==
  IF candidate \in existing
  THEN uniqueLoop(baseSlug, suffixed(baseSlug, suffix), suffix + 1, existing)
  ELSE candidate

\* existing: the session directories that exist while the loop runs
ensureUniqueSessionId(baseSlug, existing) ==
  uniqueLoop(baseSlug, baseSlug, 2, existing)

(* ------------------------------------------------------------------ *)
(* Session metadata: a record that holds only the fields present       *)
(* ------------------------------------------------------------------ *)
Statuses == {"pending", "running", "completed", "error"}

\* { ...existing, ...updates }
Merge(existing, updates) ==
  [f \in DOMAIN existing \cup DOMAIN updates |->
     IF f \in DOMAIN updates THEN updates[f] ELSE existing[f]]

\* isZombie with >= in the place of >: exactly 60 minutes already counts as stale
isZombieAtThreshold(meta, t) ==
  IF meta.status # "running" THEN FALSE
  ELSE IF "startedAt" \in DOMAIN meta
       THEN t - meta.startedAt >= ZOMBIE_MAX_AGE_MS
       ELSE IF "createdAt" \in DOMAIN meta
            THEN t - meta.createdAt >= ZOMBIE_MAX_AGE_MS
            ELSE FALSE

\* t: the value of Date.now() at the call
isZombie(meta, t) ==
  IF meta.status # "running" THEN FALSE
  ELSE IF "startedAt" \in DOMAIN meta
       THEN t - meta.startedAt > ZOMBIE_MAX_AGE_MS
       ELSE IF "createdAt" \in DOMAIN meta
            THEN t - meta.createdAt > ZOMBIE_MAX_AGE_MS
            ELSE FALSE

\* the metadata returned, and whether meta.json is rewritten with it
markZombie(meta, persist, t) ==
  IF ~isZombie(meta, t)
  THEN [meta |-> meta, write |-> FALSE]
  ELSE [meta |-> Merge(meta, [status |-> "error",
                              errorMessage |-> ZOMBIE_MESSAGE,
                              completedAt |-> t]),
        write |-> persist]

isSessionMetadataRecord(value) ==
  "id" \in DOMAIN value /\ "status" \in DOMAIN value

\* files: the meta.json of every session directory that has one
readModernSessionMetadata(sessionId, files, t) ==
  IF sessionId \notin DOMAIN files THEN Null
  ELSE IF ~isSessionMetadataRecord(files[sessionId]) THEN Null
  ELSE markZombie(files[sessionId], FALSE, t).meta

\* no session of the model is stored in the legacy session.json format, so
\* the legacy fallback finds no file
readSessionMetadata(sessionId, files, t) ==
  readModernSessionMetadata(sessionId, files, t)

\* the metadata that updateSessionMetadata writes to meta.json
updatedMetadata(sessionId, updates, files, t) ==
  LET read == readModernSessionMetadata(sessionId, files, t)
      existing == IF read = Null THEN [id |-> sessionId] ELSE read
  IN Merge(existing, updates)

\* the metadata that initializeSession writes
initialMetadata(sessionId, t) ==
  [id |-> sessionId, createdAt |-> t, status |-> "pending"]

(* ------------------------------------------------------------------ *)
(* State                                                              *)
(* ------------------------------------------------------------------ *)
VARIABLES
  now,         \* Date.now()
  dirs,        \* the session directories under sessions/
  metaFile,    \* session id -> the content of its meta.json, where written
  lastOp,      \* the last call of the store: its name, arguments and result
  reported,    \* session id -> the status the last read or listing reported
  creators,    \* the initializeSession calls in progress (interleaved creates)
  runner,      \* runMultiModelApiSession: its arguments, progress and result
  execs,       \* index in the models list -> that model's execution
  modelFiles,  \* model -> the content of models/<model>.json
  writes,      \* model -> the statuses written to its record, in order
  resume,      \* resumeBrowserSession: its arguments, progress and result
  recheck,     \* a browser run's response capture with its delayed recheck
  capture,     \* the race of the two paths of assistant-response capture
  bridge,      \* a call of the remote browser executor and its HTTP response
  heartbeat,   \* a heartbeat started by startHeartbeat, its timer and callback
  pure,        \* the last application of a pure function: arguments and result
  sessionsDir  \* the sessions directory that a prune works on: entry -> its state

storeVars == <<now, dirs, metaFile, lastOp, reported>>
runnerVars == <<runner, execs, modelFiles, writes>>
\* what the session store's operations leave alone
notStore == <<runnerVars, resume, recheck>>
\* the session store, the runner, the reattachment and the recheck
coreVars == <<storeVars, creators, runnerVars, resume, recheck>>
\* the rest of the state
otherVars == <<capture, bridge, heartbeat, pure, sessionsDir>>
\* what the steps of one component leave alone
notCapture == <<coreVars, bridge, heartbeat, pure, sessionsDir>>
notBridge == <<coreVars, capture, heartbeat, pure, sessionsDir>>
notHeartbeat == <<coreVars, capture, bridge, pure, sessionsDir>>
notPure == <<coreVars, capture, bridge, heartbeat, sessionsDir>>
notPrune == <<coreVars, capture, bridge, heartbeat, pure>>
vars == <<coreVars, otherVars>>

\* the instants the clock of the model can show: 0, 60 min, 60 min + 1 ms
Times == {0, 3600000, 3600001}

\* the prompts and custom slugs the callers of the model pass
Prompts ==
  { <<"f", "o", "o">>, <<"F", "o", "o", "!">>, <<"f", "o", "o", " ", "2">>, <<>> }
CustomSlugs ==
  { <<>>, <<"a", " ", "b">>, <<"a", " ", "b", " ", "c">> }
\* the prompts of the specification that also updates, reads and lists
StorePrompts == { <<"f", "o", "o">>, <<"F", "o", "o", "!">> }

\* the partial updates the run driver passes to updateSession for a session
\* whose meta.json holds `stored`: its own lifecycle, pending -> running ->
\* completed | error, and an update of another field (the browser runtime)
LifecycleUpdates(stored, t) ==
  { [browser |-> "runtime"] }
  \cup (IF stored.status = "pending"
        THEN { [status |-> "running", startedAt |-> t] } ELSE {})
  \cup (IF stored.status = "running"
        THEN { [status |-> "completed", completedAt |-> t] } ELSE {})
  \cup (IF stored.status \in {"pending", "running"}
        THEN { [status |-> "error", errorMessage |-> "failed",
                completedAt |-> t] }
        ELSE {})

\* options.prompt || DEFAULT_SLUG
promptOrDefault(prompt) == IF prompt = <<>> THEN DEFAULT_SLUG ELSE prompt

StoreInit ==
  /\ now = 0
  /\ dirs = {}
  /\ metaFile = <<>>
  /\ lastOp = [op |-> "none"]
  /\ reported = <<>>

\* initializeSession, run to its end with no other create interleaved
Create(prompt, customSlug) ==
  /\ LET base == createSessionId(promptOrDefault(prompt), customSlug)
         sessionId == ensureUniqueSessionId(base.slug, dirs)
     IN IF ~base.ok
        THEN /\ lastOp' = [op |-> "create", ok |-> FALSE, base |-> base.slug,
                           id |-> <<>>]
             /\ UNCHANGED <<dirs, metaFile, notStore, otherVars>>
        ELSE /\ dirs' = dirs \cup {sessionId}
             /\ metaFile' = [id \in DOMAIN metaFile \cup {sessionId} |->
                               IF id = sessionId
                               THEN initialMetadata(sessionId, now)
                               ELSE metaFile[id]]
             /\ lastOp' = [op |-> "create", ok |-> TRUE, base |-> base.slug,
                           id |-> sessionId]
  /\ UNCHANGED <<now, reported, creators, notStore, otherVars>>

\* updateSessionMetadata
Update(sessionId, updates) ==
  /\ sessionId \in DOMAIN metaFile
  /\ metaFile' = [metaFile EXCEPT
                    ![sessionId] = updatedMetadata(sessionId, updates, metaFile, now)]
  /\ lastOp' = [op |-> "update", id |-> sessionId]
  /\ UNCHANGED <<now, dirs, reported, creators, notStore, otherVars>>

\* the statuses a returned metadata adds to what has been reported
Report(rep, metas) ==
  [id \in DOMAIN rep \cup {m.id : m \in metas} |->
     IF \E m \in metas : m.id = id
     THEN (CHOOSE m \in metas : m.id = id).status
     ELSE rep[id]]

\* readSessionMetadata
Read(sessionId) ==
  /\ LET meta == readSessionMetadata(sessionId, metaFile, now)
     IN /\ lastOp' = [op |-> "read", id |-> sessionId, at |-> now, meta |-> meta]
        /\ reported' = IF meta = Null THEN reported ELSE Report(reported, {meta})
  /\ UNCHANGED <<now, dirs, metaFile, creators, notStore, otherVars>>

\* metas.sort((a, b) => b.createdAt - a.createdAt): a stable sort of the
\* entries in the order readdir gave them, which the file system chooses
SortedNewestFirst(metas) ==
  { s \in [1..Cardinality(metas) -> metas] :
      /\ \A i, j \in DOMAIN s : i # j => s[i] # s[j]
      /\ \A i, j \in DOMAIN s : i < j => s[i].createdAt >= s[j].createdAt }

\* listSessionsMetadata; t2 is Date.now() at the second zombie test of an
\* entry, which follows the await of its read
List(t2) ==
  /\ t2 >= now
  /\ LET entries == { id \in dirs : readSessionMetadata(id, metaFile, now) # Null }
         kept(id) == markZombie(readSessionMetadata(id, metaFile, now), TRUE, t2)
         metas == { kept(id).meta : id \in entries }
     IN /\ metaFile' = [id \in DOMAIN metaFile |->
                          IF id \in entries /\ kept(id).write
                          THEN kept(id).meta ELSE metaFile[id]]
        /\ \E s \in SortedNewestFirst(metas) :
             lastOp' = [op |-> "list", metas |-> s]
        /\ reported' = Report(reported, metas)
  /\ now' = t2
  /\ UNCHANGED <<dirs, creators, notStore, otherVars>>

\* time passes
Tick(t) ==
  /\ t > now
  /\ now' = t
  /\ UNCHANGED <<dirs, metaFile, lastOp, reported, creators, notStore, otherVars>>

\* the parts of the state a specification does not use
IdleRunner ==
  /\ runner = [phase |-> "none", models |-> <<>>, nextStart |-> 1,
               startOrder |-> <<>>, doneOrder |-> <<>>, result |-> Null]
  /\ execs = <<>>
  /\ modelFiles = <<>>
  /\ writes = <<>>
IdleResume ==
  resume = [pc |-> "none", port |-> FALSE, timeoutMs |-> 0, trace |-> <<>>,
            connectAttempts |-> 0, recoverCalls |-> 0, log |-> <<>>,
            answer |-> None, markdown |-> None, outcome |-> Null]
IdleRecheck ==
  recheck = [pc |-> "none", timeoutMs |-> 0, recheckDelayMs |-> 0,
             recheckTimeoutMs |-> 0, answerAt |-> 0, clock |-> 0,
             logs |-> 0, waits |-> 0, reloads |-> 0, retries |-> 0,
             outcome |-> None]

IdleCapture ==
  capture = [pc |-> "none", chunks |-> 0, settled |-> FALSE, quiet |-> 0,
             lastSample |-> 0, pollerTimer |-> "none", observer |-> "none",
             winner |-> None, answer |-> 0, delivered |-> 0, pollerLogs |-> 0,
             logsAfterWin |-> 0, lateResults |-> 0, firstReport |-> Null]
IdleBridge ==
  bridge = [pc |-> "none", status |-> 0, toSend |-> <<>>, received |-> <<>>,
            buffer |-> <<>>, resolved |-> None, outcome |-> Null, logs |-> <<>>]
IdleHeartbeat ==
  heartbeat = [pc |-> "none", intervalMs |-> 0, active |-> FALSE,
               stopped |-> FALSE, pending |-> FALSE, timer |-> "none",
               ticks |-> 0, skipped |-> 0, inFlight |-> 0, invocations |-> 0,
               logs |-> 0, lastOutcome |-> None, sawInactive |-> FALSE,
               stopCalled |-> FALSE, stopCalls |-> 0]
IdlePure == pure = [op |-> "none"]
IdlePrune == sessionsDir = [entries |-> <<>>, before |-> <<>>, call |-> Null]
IdleOthers ==
  /\ IdleCapture
  /\ IdleBridge
  /\ IdleHeartbeat
  /\ IdlePure
  /\ IdlePrune

Init ==
  /\ StoreInit
  /\ creators = <<>>
  /\ IdleRunner
  /\ IdleResume
  /\ IdleRecheck
  /\ IdleOthers

Next ==
  \/ /\ Cardinality(dirs) < MaxSessions
     /\ \E prompt \in StorePrompts : Create(prompt, <<>>)
  \/ \E id \in DOMAIN metaFile :
       \E updates \in LifecycleUpdates(metaFile[id], now) : Update(id, updates)
  \/ \E id \in dirs : Read(id)
  \/ \E t \in Times : List(t)
  \/ \E t \in Times : Tick(t)

\* the session store used by one caller at a time
Spec == Init /\ [][Next]_vars

(* ------------------------------------------------------------------ *)
(* Creates one after another                                          *)
(* ------------------------------------------------------------------ *)
NextSequentialCreates ==
  \/ /\ Cardinality(dirs) < MaxCreates
     /\ \E prompt \in Prompts, customSlug \in CustomSlugs :
          Create(prompt, customSlug)
  \/ \E t \in Times : Tick(t)

SpecSequentialCreates == Init /\ [][NextSequentialCreates]_vars

(* ------------------------------------------------------------------ *)
(* Creates whose steps interleave: initializeSession, await by await   *)
(* ------------------------------------------------------------------ *)
Creators == 1..MaxCreators

\* await ensureSessionStorage(); createSessionId(...); the first candidate
Begin(p, prompt, customSlug) ==
  /\ p \notin DOMAIN creators
  /\ LET base == createSessionId(promptOrDefault(prompt), customSlug)
     IN creators' = [q \in DOMAIN creators \cup {p} |->
                      IF q = p
                      THEN [pc |-> IF base.ok THEN "check" ELSE "thrown",
                            base |-> base.slug, candidate |-> base.slug,
                            suffix |-> 2]
                      ELSE creators[q]]
  /\ UNCHANGED <<now, dirs, metaFile, lastOp, reported, notStore, otherVars>>

\* one turn of the loop of ensureUniqueSessionId: await fileExists(candidate)
CheckExists(p) ==
  /\ p \in DOMAIN creators
  /\ creators[p].pc = "check"
  /\ creators' = [creators EXCEPT ![p] =
       IF creators[p].candidate \in dirs
       THEN [@ EXCEPT !.candidate = suffixed(creators[p].base, creators[p].suffix),
                      !.suffix = @ + 1]
       ELSE [@ EXCEPT !.pc = "mkdir"]]
  /\ UNCHANGED <<now, dirs, metaFile, lastOp, reported, notStore, otherVars>>

\* await ensureDir(dir): mkdir with recursive: true, which an existing
\* directory does not fail
Mkdir(p) ==
  /\ p \in DOMAIN creators
  /\ creators[p].pc = "mkdir"
  /\ dirs' = dirs \cup {creators[p].candidate}
  /\ creators' = [creators EXCEPT ![p].pc = "write"]
  /\ UNCHANGED <<now, metaFile, lastOp, reported, notStore, otherVars>>

\* the writes of meta.json, the model records and the logs; the return
WriteFiles(p) ==
  /\ p \in DOMAIN creators
  /\ creators[p].pc = "write"
  /\ LET sessionId == creators[p].candidate
     IN metaFile' = [id \in DOMAIN metaFile \cup {sessionId} |->
                       IF id = sessionId THEN initialMetadata(sessionId, now)
                       ELSE metaFile[id]]
  /\ creators' = [creators EXCEPT ![p].pc = "done"]
  /\ UNCHANGED <<now, dirs, lastOp, reported, notStore, otherVars>>

NextConcurrentCreates ==
  \/ \E p \in Creators, prompt \in Prompts, customSlug \in CustomSlugs :
       Begin(p, prompt, customSlug)
  \/ \E p \in Creators : CheckExists(p)
  \/ \E p \in Creators : Mkdir(p)
  \/ \E p \in Creators : WriteFiles(p)

SpecConcurrentCreates == Init /\ [][NextConcurrentCreates]_vars

(* ------------------------------------------------------------------ *)
(* Claims about the session store                                     *)
(* ------------------------------------------------------------------ *)
Rank(status) ==
  CASE status = "pending" -> 0
    [] status = "running" -> 1
    [] OTHER -> 2

\* C1: the status that successive reads and listings of a session report only
\* moves forward along pending -> running -> completed | error: a reported
\* completed or error is never followed by another status, and no report
\* shows an earlier stage than the report before it.
C1_ReportedStatusOnlyMovesForward ==
  [][\A id \in DOMAIN reported :
       /\ reported[id] \in {"completed", "error"} => reported'[id] = reported[id]
       /\ Rank(reported'[id]) >= Rank(reported[id])]_vars

\* C5: after a listing, every session it returned as zombie-corrected (status
\* error with the zombie message) has status error in its meta.json too.
C5_ListingPersistsZombieCorrection ==
  lastOp.op = "list" =>
    \A i \in DOMAIN lastOp.metas :
      (lastOp.metas[i].status = "error"
         /\ "errorMessage" \in DOMAIN lastOp.metas[i]
         /\ lastOp.metas[i].errorMessage = ZOMBIE_MESSAGE)
      => metaFile[lastOp.metas[i].id].status = "error"

\* C6: a read returns a session with status error and the zombie message when
\* its stored status is running and its startedAt (createdAt when startedAt is
\* absent) lies more than 60 minutes before the read; a running session
\* started 60 minutes ago or less, and a session in any other status whatever
\* its age, is returned as stored.
C6_ReadAppliesZombieCheck ==
  (lastOp.op = "read" /\ lastOp.meta # Null) =>
    LET stored == metaFile[lastOp.id]
        reference == IF "startedAt" \in DOMAIN stored
                     THEN stored.startedAt ELSE stored.createdAt
        stale == stored.status = "running" /\ lastOp.at - reference > 60 * 60 * 1000
    IN IF stale
       THEN /\ lastOp.meta.status = "error"
            /\ lastOp.meta.errorMessage = ZOMBIE_MESSAGE
       ELSE lastOp.meta = stored

\* C6, its case: a read of a stale running session that came back as error
C6_Witness ==
  /\ lastOp.op = "read"
  /\ lastOp.meta # Null
  /\ metaFile[lastOp.id].status = "running"
  /\ lastOp.meta.status = "error"
  /\ lastOp.meta.errorMessage = ZOMBIE_MESSAGE

\* C7: two creates whose steps interleave and whose prompts normalise to the
\* same base slug never end up with the same session id (and so never write
\* into the same session directory).
C7_InterleavedCreatesGetDistinctIds ==
  \A p, q \in DOMAIN creators :
    (/\ p # q
     /\ creators[p].pc \in {"mkdir", "write", "done"}
     /\ creators[q].pc \in {"mkdir", "write", "done"}
     /\ creators[p].base = creators[q].base)
    => creators[p].candidate # creators[q].candidate

\* C8: when creates run one after another, a create whose base slug is taken
\* returns the first free id of the series slug, slug-2, slug-3, ...; the id
\* it returns names no directory that existed, and it leaves the meta.json
\* of every existing session as it was.
C8_SequentialCreateTakesFirstFreeId ==
  [][(lastOp'.op = "create" /\ lastOp'.ok /\ metaFile' # metaFile) =>
       LET base == lastOp'.base
           seriesId(k) == IF k = 1 THEN base
                          ELSE base \o <<"-">> \o NumToText(k)
       IN /\ lastOp'.id \notin dirs
          /\ \E k \in 1..(Cardinality(dirs) + 1) :
               /\ lastOp'.id = seriesId(k)
               /\ \A j \in 1..(k - 1) : seriesId(j) \in dirs
          /\ dirs' = dirs \cup {lastOp'.id}
          /\ \A id \in dirs : metaFile'[id] = metaFile[id]]_vars

\* C8, its case: the third session of a base slug was created as slug-3
C8_Witness ==
  /\ lastOp.op = "create"
  /\ lastOp.ok
  /\ lastOp.base = <<"f", "o", "o">>
  /\ lastOp.id = <<"f", "o", "o", "-", "3">>
  /\ {<<"f", "o", "o">>, <<"f", "o", "o", "-", "2">>} \subseteq dirs

(* ------------------------------------------------------------------ *)
(* The multi-model runner: runMultiModelApiSession                    *)
(* ------------------------------------------------------------------ *)
ModelNames == {"gpt-5.1-pro", "gemini-3-pro", "claude-4.5-sonnet"}

\* the models a run requests: a list of up to MaxModels different models
ModelLists ==
  UNION { { ms \in [1..n -> ModelNames] : \A i, j \in 1..n : i # j => ms[i] # ms[j] }
          : n \in 1..Min(MaxModels, Cardinality(ModelNames)) }

\* what runOracleImpl can do with a model: return a live result, return a
\* preview result, or throw one of its errors
OracleOutcomes == {"live", "preview", "OracleTransportError", "OracleResponseError"}

PREVIEW_ERROR == "Unexpected preview result while running a session."

TerminalStatuses == {"completed", "error"}

\* the record initializeSession writes for each model of the list
initialModelRecord(modelName) == [model |-> modelName, status |-> "pending"]

\* updateModelRunMetadata: the record after the update
updateModelRunMetadata(files, model, updates) ==
  LET existing == IF model \in DOMAIN files THEN files[model]
                  ELSE [model |-> model, status |-> "pending"]
  IN Merge(Merge(existing, updates), [model |-> model])

\* the updates of startModelExecution
runningUpdate == [status |-> "running"]
completedUpdate == [status |-> "completed"]
errorUpdateWithoutStatus(reason) == [error |-> reason]
errorUpdate(reason) == [status |-> "error", error |-> reason]

\* Promise.all in the place of Promise.allSettled: settles with the first
\* rejection
anyRejectedOrAllSettled(ex, n) ==
  \/ \A i \in 1..n : i \in DOMAIN ex /\ ex[i].pc = "settled"
  \/ \E i \in DOMAIN ex : ex[i].pc = "settled" /\ ex[i].settled = "rejected"
\* Promise.allSettled(executions.map((exec) => exec.promise))
allSettled(ex, n) == \A i \in 1..n : i \in DOMAIN ex /\ ex[i].pc = "settled"

\* result.status === 'fulfilled'
isFulfilledAlways(e) == TRUE
isFulfilled(e) == e.settled = "fulfilled"

\* settled.forEach(...): the two lists, in the order of the models list
RECURSIVE fulfilledOf(_, _)
fulfilledOf(ex, n) ==
  IF n = 0 THEN <<>>
  ELSE IF isFulfilled(ex[n])
       THEN Append(fulfilledOf(ex, n - 1), [model |-> ex[n].model])
       ELSE fulfilledOf(ex, n - 1)
RECURSIVE rejectedOf(_, _)
rejectedOf(ex, n) ==
  IF n = 0 THEN <<>>
  ELSE IF isFulfilled(ex[n])
       THEN rejectedOf(ex, n - 1)
       ELSE Append(rejectedOf(ex, n - 1),
                   [model |-> ex[n].model, reason |-> ex[n].reason])

\* initializeSession (its model records) followed by the call of
\* runMultiModelApiSession with the same models
InitializeSession(ms) ==
  /\ runner.phase = "none"
  /\ modelFiles' = [m \in {ms[i] : i \in DOMAIN ms} |-> initialModelRecord(m)]
  /\ writes' = [m \in {ms[i] : i \in DOMAIN ms} |-> <<"pending">>]
  /\ runner' = [runner EXCEPT !.phase = "starting", !.models = ms]
  /\ UNCHANGED <<storeVars, creators, execs, resume, recheck, otherVars>>

\* one turn of models.map: startModelExecution up to the first await of its
\* async block; no continuation runs before the map is over
StartModelExecution(i) ==
  /\ runner.phase = "starting"
  /\ i = runner.nextStart
  /\ i <= Len(runner.models)
  /\ execs' = [k \in DOMAIN execs \cup {i} |->
                 IF k = i
                 THEN [model |-> runner.models[i], pc |-> "markRunning",
                       called |-> FALSE, outcome |-> None, settled |-> "pending",
                       reason |-> None, stream |-> "open"]
                 ELSE execs[k]]
  /\ runner' = [runner EXCEPT
                  !.nextStart = i + 1,
                  !.startOrder = Append(@, runner.models[i]),
                  !.phase = IF i = Len(runner.models) THEN "awaiting" ELSE "starting"]
  /\ UNCHANGED <<storeVars, creators, modelFiles, writes, resume, recheck, otherVars>>

Running == runner.phase \in {"awaiting", "returned"}

\* a write of the record of model m
WriteModelRun(m, updates) ==
  /\ modelFiles' = [f \in DOMAIN modelFiles \cup {m} |->
                      IF f = m THEN updateModelRunMetadata(modelFiles, m, updates)
                      ELSE modelFiles[f]]
  /\ writes' = [f \in DOMAIN writes \cup {m} |->
                  IF f = m
                  THEN Append(IF m \in DOMAIN writes THEN writes[m] ELSE <<>>,
                              updateModelRunMetadata(modelFiles, m, updates).status)
                  ELSE writes[f]]

\* await store.updateModelRun(... status: 'running' ...), the banner, and the
\* call of runOracleImpl
MarkRunning(i) ==
  /\ Running
  /\ i \in DOMAIN execs
  /\ execs[i].pc = "markRunning"
  /\ WriteModelRun(execs[i].model, runningUpdate)
  /\ execs' = [execs EXCEPT ![i].pc = "calling", ![i].called = TRUE]
  /\ UNCHANGED <<storeVars, creators, runner, resume, recheck, otherVars>>

\* await runOracleImpl(...) settles; a result that is not live is thrown
RunOracleSettles(i, o) ==
  /\ Running
  /\ i \in DOMAIN execs
  /\ execs[i].pc = "calling"
  /\ execs' = [execs EXCEPT
                 ![i].outcome = o,
                 ![i].pc = IF o = "live" THEN "markCompleted" ELSE "markError",
                 ![i].reason = IF o = "live" THEN None
                               ELSE IF o = "preview" THEN PREVIEW_ERROR ELSE o]
  /\ UNCHANGED <<storeVars, creators, runner, modelFiles, writes, resume, recheck, otherVars>>

\* await store.updateModelRun(... status: 'completed' ...); return
MarkCompleted(i) ==
  /\ Running
  /\ i \in DOMAIN execs
  /\ execs[i].pc = "markCompleted"
  /\ WriteModelRun(execs[i].model, completedUpdate)
  /\ execs' = [execs EXCEPT ![i].pc = "finally", ![i].settled = "fulfilled"]
  /\ UNCHANGED <<storeVars, creators, runner, resume, recheck, otherVars>>

\* .catch: await store.updateModelRun(... status: 'error' ...); throw error
MarkError(i) ==
  /\ Running
  /\ i \in DOMAIN execs
  /\ execs[i].pc = "markError"
  /\ WriteModelRun(execs[i].model, errorUpdate(execs[i].reason))
  /\ execs' = [execs EXCEPT ![i].pc = "finally", ![i].settled = "rejected"]
  /\ UNCHANGED <<storeVars, creators, runner, resume, recheck, otherVars>>

\* .finally: logWriter.stream.end(); the promise of the execution settles
EndStream(i) ==
  /\ Running
  /\ i \in DOMAIN execs
  /\ execs[i].pc = "finally"
  /\ execs' = [execs EXCEPT ![i].pc = "settled", ![i].stream = "closed"]
  /\ runner' = [runner EXCEPT !.doneOrder = Append(@, i)]
  /\ UNCHANGED <<storeVars, creators, modelFiles, writes, resume, recheck, otherVars>>

\* the await of Promise.allSettled returns; the partition; the return
Aggregate ==
  /\ runner.phase = "awaiting"
  /\ allSettled(execs, Len(runner.models))
  /\ runner' = [runner EXCEPT
                  !.phase = "returned",
                  !.result = [fulfilled |-> fulfilledOf(execs, Len(runner.models)),
                              rejected |-> rejectedOf(execs, Len(runner.models))]]
  /\ UNCHANGED <<storeVars, creators, execs, modelFiles, writes, resume, recheck, otherVars>>

InitRunner ==
  /\ StoreInit
  /\ creators = <<>>
  /\ IdleRunner
  /\ IdleResume
  /\ IdleRecheck
  /\ IdleOthers

NextRunner ==
  \/ \E ms \in ModelLists : InitializeSession(ms)
  \/ \E i \in 1..MaxModels : StartModelExecution(i)
  \/ \E i \in 1..MaxModels : MarkRunning(i)
  \/ \E i \in 1..MaxModels, o \in OracleOutcomes : RunOracleSettles(i, o)
  \/ \E i \in 1..MaxModels : MarkCompleted(i)
  \/ \E i \in 1..MaxModels : MarkError(i)
  \/ \E i \in 1..MaxModels : EndStream(i)
  \/ Aggregate

SpecRunner == InitRunner /\ [][NextRunner]_vars

\* the event loop runs every continuation that is ready, and every call of
\* runOracleImpl settles
SpecRunnerLive == InitRunner /\ [][NextRunner]_vars /\ WF_vars(NextRunner)

(* ------------------------------------------------------------------ *)
(* Claims about the multi-model runner                                *)
(* ------------------------------------------------------------------ *)
terminalWrites(m) ==
  Cardinality({k \in DOMAIN writes[m] : writes[m][k] \in TerminalStatuses})

countOf(entries, m) ==
  Cardinality({k \in DOMAIN entries : entries[k].model = m})

C4_ReturnsAfterAllSettled ==
  /\ runner.startOrder = SubSeq(runner.models, 1, Len(runner.startOrder))
  /\ runner.phase = "returned" =>
       /\ runner.startOrder = runner.models
       /\ \A i \in DOMAIN runner.models :
            /\ i \in DOMAIN execs
            /\ execs[i].pc = "settled"
            /\ execs[i].called
            /\ execs[i].stream = "closed"
            /\ terminalWrites(execs[i].model) = 1

\* C4, its case: the second model failed first, and the first model then
\* completed before the call returned
C4_Witness ==
  /\ runner.phase = "returned"
  /\ Len(runner.models) >= 2
  /\ runner.doneOrder[1] = 2
  /\ execs[2].settled = "rejected"
  /\ execs[1].settled = "fulfilled"

(* ------------------------------------------------------------------ *)
(* Reattachment: resumeBrowserSession                                 *)
(* ------------------------------------------------------------------ *)
\* the awaits of the direct path, in the order of the code
DirectSteps ==
  <<"listTargets", "connect", "runtimeEnable", "domEnable", "ping", "href",
    "sidebar", "locationChange", "waitForResponse", "captureMarkdown", "close">>

\* config?.timeoutMs ?? 120_000
TimeoutsMs == {20000, 120000}

\* what an await of the direct path can do: the browser answers, the call
\* throws, or (for the waits under withTimeout) the timer wins the race
StepOutcomes(step) ==
  CASE step = "ping" -> {"ok", "throw", "timeout"}
    [] step = "href" -> {"conversation", "other", "throw"}
    [] step = "sidebar" -> {"opened", "notOpened", "throw"}
    [] step = "waitForResponse" -> {"ok", "throw", "timeout"}
    [] step = "captureMarkdown" -> {"markdown", "null", "throw", "timeout"}
    [] OTHER -> {"ok", "throw"}

\* the error a step's outcome throws into the catch block, None if it throws none
thrownBy(step, o) ==
  CASE step = "close" -> None
    [] o = "throw" -> step
    [] o = "timeout" /\ step = "ping" -> "Reattach target did not respond"
    [] o = "timeout" /\ step = "waitForResponse" -> "Reattach response timed out"
    [] o = "timeout" /\ step = "captureMarkdown" -> "Reattach markdown capture timed out"
    [] o = "notOpened" -> "Unable to locate prior ChatGPT conversation in sidebar."
    [] OTHER -> None

\* the await that follows a step that threw nothing
stepAfter(step, o) ==
  CASE step = "listTargets" -> "connect"
    [] step = "connect" -> "runtimeEnable"
    [] step = "runtimeEnable" -> "domEnable"
    [] step = "domEnable" -> "ping"
    [] step = "ping" -> "href"
    [] step = "href" -> IF o = "conversation" THEN "waitForResponse" ELSE "sidebar"
    [] step = "sidebar" -> "locationChange"
    [] step = "locationChange" -> "waitForResponse"
    [] step = "waitForResponse" -> "captureMarkdown"
    [] step = "captureMarkdown" -> "close"
    [] OTHER -> "done"

ANSWER_TEXT == "answer text"
ANSWER_MARKDOWN == "answer markdown"

\* a catch block that throws the error again
rethrow(r, message) ==
  [r EXCEPT !.pc = "done", !.outcome = [ok |-> FALSE, error |-> message]]
\* catch (error): logger(...); return recoverSession(runtime, config)
recoverAfterFailure(r, message) ==
  [r EXCEPT !.pc = "recovering",
            !.recoverCalls = @ + 1,
            !.log = Append(@, "Existing Chrome reattach failed")]

\* what recoverSession can settle with
RecoveryOutcomes ==
  { [ok |-> TRUE, answerText |-> "recovered text", answerMarkdown |-> "recovered markdown"],
    [ok |-> FALSE, error |-> "recovery failed"] }

\* the call of resumeBrowserSession, up to its first await
BeginResume(port, timeoutMs) ==
  /\ resume.pc = "none"
  /\ resume' =
       IF ~port
       THEN [resume EXCEPT !.port = port, !.timeoutMs = timeoutMs,
                           !.pc = "recovering", !.recoverCalls = @ + 1,
                           !.log = Append(@, "No running Chrome detected")]
       ELSE [resume EXCEPT !.port = port, !.timeoutMs = timeoutMs,
                           !.pc = "listTargets"]
  /\ UNCHANGED <<storeVars, creators, runnerVars, recheck, otherVars>>

\* one await of the direct path settles
DirectStep(o) ==
  /\ resume.pc \in {DirectSteps[k] : k \in DOMAIN DirectSteps}
  /\ o \in StepOutcomes(resume.pc)
  /\ LET step == resume.pc
         r == [resume EXCEPT
                 !.trace = Append(@, <<step, o>>),
                 !.connectAttempts =
                    IF step \in {"listTargets", "connect"} THEN @ + 1 ELSE @,
                 !.answer = IF step = "waitForResponse" /\ o = "ok"
                            THEN ANSWER_TEXT ELSE @,
                 !.markdown = IF step = "captureMarkdown" /\ o = "markdown"
                              THEN ANSWER_MARKDOWN
                              ELSE IF step = "captureMarkdown" /\ o = "null"
                                   THEN resume.answer ELSE @]
     IN resume' =
          IF thrownBy(step, o) # None
          THEN recoverAfterFailure(r, thrownBy(step, o))
          ELSE IF stepAfter(step, o) = "done"
               THEN [r EXCEPT !.pc = "done",
                              !.outcome = [ok |-> TRUE, answerText |-> r.answer,
                                           answerMarkdown |-> r.markdown]]
               ELSE [r EXCEPT !.pc = stepAfter(step, o)]
  /\ UNCHANGED <<storeVars, creators, runnerVars, recheck, otherVars>>

\* recoverSession settles, and resumeBrowserSession with it
RecoverSettles(outcome) ==
  /\ resume.pc = "recovering"
  /\ resume' = [resume EXCEPT !.pc = "done", !.outcome = outcome]
  /\ UNCHANGED <<storeVars, creators, runnerVars, recheck, otherVars>>

InitResume ==
  /\ StoreInit
  /\ creators = <<>>
  /\ IdleRunner
  /\ IdleResume
  /\ IdleRecheck
  /\ IdleOthers

NextResume ==
  \/ \E port \in BOOLEAN, timeoutMs \in TimeoutsMs : BeginResume(port, timeoutMs)
  \/ \E o \in {"ok", "throw", "timeout", "conversation", "other", "opened",
               "notOpened", "markdown", "null"} : DirectStep(o)
  \/ \E outcome \in RecoveryOutcomes : RecoverSettles(outcome)

SpecResume == InitResume /\ [][NextResume]_vars

(* ------------------------------------------------------------------ *)
(* Claims about reattachment                                          *)
(* ------------------------------------------------------------------ *)
\* a step of the direct path threw or timed out
directPathFailed ==
  \E k \in DOMAIN resume.trace :
    /\ resume.trace[k][1] # "close"
    /\ resume.trace[k][2] \in {"throw", "timeout", "notOpened"}

\* C9: whenever a step of the direct path throws or times out, the recovery
\* is invoked exactly once and its outcome is the outcome of the call; when
\* the direct path succeeds the recovery is not invoked and the call returns
\* the captured answer; when no debugging port is stored the recovery is
\* invoked with no connection attempt.
C9_FailedReattachFallsBackToRecovery ==
  /\ resume.recoverCalls <= 1
  /\ directPathFailed => resume.recoverCalls = 1
  /\ (resume.pc # "none" /\ ~resume.port) =>
       /\ resume.recoverCalls = 1
       /\ resume.connectAttempts = 0
       /\ resume.trace = <<>>
  /\ resume.pc = "done" =>
       IF directPathFailed \/ ~resume.port
       THEN /\ resume.recoverCalls = 1
            /\ resume.outcome \in RecoveryOutcomes
       ELSE /\ resume.recoverCalls = 0
            /\ resume.outcome.ok
            /\ resume.outcome.answerText = ANSWER_TEXT

\* C9, its case: the liveness probe timed out and the call returned what the
\* recovery returned
C9_Witness ==
  /\ resume.pc = "done"
  /\ resume.port
  /\ resume.trace[Len(resume.trace)] = <<"ping", "timeout">>
  /\ resume.recoverCalls = 1
  /\ resume.outcome.ok
  /\ resume.outcome.answerText = "recovered text"

(* ------------------------------------------------------------------ *)
(* Response capture with the delayed recheck (browser engine)         *)
(* ------------------------------------------------------------------ *)
\* the response timeout, the recheck delay (0: disabled) and the recheck
\* timeout of a run, in ms
ResponseTimeoutsMs == {120000, 1200000}
RecheckDelaysMs == {0, 30000, 3600000}
RecheckTimeoutsMs == {120000, 300000}
\* the time after submission at which the answer can be captured; Never if
\* the answer does not come
Never == -1
AnswerTimesMs == {60000, 130000, 1000000, 1300000, 3750000, 4900000, Never}

\* the answer is there at some time of the wait that ends at deadline
answeredBy(r, deadline) == r.answerAt # Never /\ r.answerAt < deadline

\* the recheck runs whatever the delay is
recheckAlways(r) == TRUE
\* a recheck delay other than zero is configured
recheckEnabled(r) == r.recheckDelayMs > 0

\* the run starts to wait for the response
BeginCapture(timeoutMs, delayMs, recheckTimeoutMs, answerAt) ==
  /\ recheck.pc = "none"
  /\ recheck' = [recheck EXCEPT
                   !.pc = "primary", !.timeoutMs = timeoutMs,
                   !.recheckDelayMs = delayMs,
                   !.recheckTimeoutMs = recheckTimeoutMs,
                   !.answerAt = answerAt]
  /\ UNCHANGED <<storeVars, creators, runnerVars, resume, otherVars>>

\* the primary capture ends: with the answer, or with the response timeout,
\* which is a hard timeout when the recheck is disabled and is logged when it
\* is enabled
PrimaryCapture ==
  /\ recheck.pc = "primary"
  /\ recheck' =
       IF answeredBy(recheck, recheck.timeoutMs)
       THEN [recheck EXCEPT !.pc = "done", !.clock = recheck.answerAt,
                            !.outcome = "captured"]
       ELSE IF recheckEnabled(recheck)
            THEN [recheck EXCEPT !.pc = "waiting", !.clock = recheck.timeoutMs,
                                 !.logs = @ + 1]
            ELSE [recheck EXCEPT !.pc = "done", !.clock = recheck.timeoutMs,
                                 !.outcome = "timeout"]
  /\ UNCHANGED <<storeVars, creators, runnerVars, resume, otherVars>>

\* the engine waits the delay period
WaitDelay ==
  /\ recheck.pc = "waiting"
  /\ recheck' = [recheck EXCEPT !.pc = "reload", !.waits = @ + 1,
                                !.clock = @ + recheck.recheckDelayMs]
  /\ UNCHANGED <<storeVars, creators, runnerVars, resume, otherVars>>

\* the engine reloads the conversation URL
Reload ==
  /\ recheck.pc = "reload"
  /\ recheck' = [recheck EXCEPT !.pc = "recheck", !.reloads = @ + 1]
  /\ UNCHANGED <<storeVars, creators, runnerVars, resume, otherVars>>

\* the retry of the capture, for up to the recheck timeout: it ends with the
\* answer or with the hard timeout
RecheckCapture ==
  /\ recheck.pc = "recheck"
  /\ recheck' =
       IF answeredBy(recheck, recheck.clock + recheck.recheckTimeoutMs)
       THEN [recheck EXCEPT !.pc = "done", !.retries = @ + 1,
                            !.clock = IF recheck.answerAt > @
                                      THEN recheck.answerAt ELSE @,
                            !.outcome = "recheck-captured"]
       ELSE [recheck EXCEPT !.pc = "done", !.retries = @ + 1,
                            !.clock = @ + recheck.recheckTimeoutMs,
                            !.outcome = "timeout"]
  /\ UNCHANGED <<storeVars, creators, runnerVars, resume, otherVars>>

InitRecheck ==
  /\ StoreInit
  /\ creators = <<>>
  /\ IdleRunner
  /\ IdleResume
  /\ IdleRecheck
  /\ IdleOthers

NextRecheck ==
  \/ \E timeoutMs \in ResponseTimeoutsMs, delayMs \in RecheckDelaysMs,
        recheckTimeoutMs \in RecheckTimeoutsMs, answerAt \in AnswerTimesMs :
       BeginCapture(timeoutMs, delayMs, recheckTimeoutMs, answerAt)
  \/ PrimaryCapture
  \/ WaitDelay
  \/ Reload
  \/ RecheckCapture

SpecRecheck == InitRecheck /\ [][NextRecheck]_vars

(* ------------------------------------------------------------------ *)
(* Claims about the delayed recheck                                   *)
(* ------------------------------------------------------------------ *)
\* the primary capture has ended with the response timeout
primaryTimedOut ==
  /\ recheck.pc \notin {"none", "primary"}
  /\ ~answeredBy(recheck, recheck.timeoutMs)

\* C10: with a recheck delay greater than 0, a primary capture that exceeds
\* the response timeout logs one timed-out message, waits the delay, reloads
\* the conversation and retries the capture once within the recheck timeout;
\* the hard timeout is raised only when that retry times out too, at response
\* timeout + delay + recheck timeout; the message, the wait, the reload and
\* the retry happen at most once in a run. With a recheck delay of 0 the
\* first timeout is the hard timeout, with no message, wait or retry.
C10_DelayedRecheckRunsOnce ==
  /\ recheck.logs <= 1 /\ recheck.waits <= 1
  /\ recheck.reloads <= 1 /\ recheck.retries <= 1
  /\ (primaryTimedOut /\ recheck.recheckDelayMs > 0) =>
       /\ recheck.logs = 1
       /\ recheck.pc = "recheck" =>
            /\ recheck.waits = 1 /\ recheck.reloads = 1
            /\ recheck.clock = recheck.timeoutMs + recheck.recheckDelayMs
       /\ recheck.pc = "done" =>
            /\ recheck.waits = 1 /\ recheck.reloads = 1 /\ recheck.retries = 1
            /\ recheck.outcome \in {"recheck-captured", "timeout"}
            /\ recheck.outcome = "timeout" <=>
                 ~answeredBy(recheck, recheck.timeoutMs + recheck.recheckDelayMs
                                        + recheck.recheckTimeoutMs)
            /\ recheck.outcome = "timeout" =>
                 recheck.clock = recheck.timeoutMs + recheck.recheckDelayMs
                                   + recheck.recheckTimeoutMs
  /\ (primaryTimedOut /\ recheck.recheckDelayMs = 0) =>
       /\ recheck.pc = "done"
       /\ recheck.outcome = "timeout"
       /\ recheck.clock = recheck.timeoutMs
       /\ recheck.logs = 0 /\ recheck.waits = 0
       /\ recheck.reloads = 0 /\ recheck.retries = 0
  /\ (recheck.pc = "done" /\ ~primaryTimedOut) =>
       /\ recheck.outcome = "captured"
       /\ recheck.logs = 0 /\ recheck.retries = 0

\* C10, its case: the primary capture timed out, the recheck delay was
\* waited, and the retry after the reload captured the answer
C10_Witness ==
  /\ recheck.pc = "done"
  /\ recheck.recheckDelayMs > 0
  /\ recheck.logs = 1
  /\ recheck.retries = 1
  /\ recheck.outcome = "recheck-captured"
  /\ recheck.answerAt > recheck.timeoutMs + recheck.recheckDelayMs

(* ------------------------------------------------------------------ *)
(* Assistant-response capture: the race of the two paths              *)
(* ------------------------------------------------------------------ *)
\* the quiet samples the polling path needs before it accepts a text of the
\* given length: a longer answer needs a longer quiet period
requiredQuiet(chunks) == IF chunks <= 1 THEN 1 ELSE 2

\* a winner is declared and nothing of the loser is cleaned up
declareWinnerOnly(c, path) ==
  [c EXCEPT !.pc = "done", !.winner = path, !.answer = c.chunks,
            !.delivered = @ + 1]
\* a winner is declared: its answer is delivered, the poller's timer is
\* cleared and the observer is detached
declareWinner(c, path) ==
  [c EXCEPT !.pc = "done", !.winner = path, !.answer = c.chunks,
            !.delivered = @ + 1,
            !.pollerTimer = "cleared", !.observer = "detached"]

\* a path reports a stable answer: the first report wins the race, a later
\* one is a result of the loser
report(c, path) ==
  LET seen == [c EXCEPT !.firstReport =
                 IF c.firstReport = Null
                 THEN [path |-> path, text |-> c.chunks] ELSE @]
  IN IF c.winner = None THEN declareWinner(seen, path)
     ELSE [seen EXCEPT !.lateResults = @ + 1]

\* the capture starts: the observer is injected and the poller's timer armed
BeginRace ==
  /\ capture.pc = "none"
  /\ capture' = [capture EXCEPT !.pc = "racing", !.pollerTimer = "armed",
                                !.observer = "attached"]
  /\ UNCHANGED notCapture

\* the page streams one more piece of the answer
StreamChunk ==
  /\ capture.pc = "racing"
  /\ ~capture.settled
  /\ capture.chunks < MaxChunks
  /\ capture' = [capture EXCEPT !.chunks = @ + 1]
  /\ UNCHANGED notCapture

\* the assistant's message node settles
Settle ==
  /\ capture.pc = "racing"
  /\ ~capture.settled
  /\ capture.chunks >= 1
  /\ capture' = [capture EXCEPT !.settled = TRUE]
  /\ UNCHANGED notCapture

\* the reactive path: the observer reacts to the settled message node
ObserverFires ==
  /\ capture.observer = "attached"
  /\ capture.settled
  /\ capture' = report(capture, "observer")
  /\ UNCHANGED notCapture

\* the polling path: the timer fires, the watchdog samples the DOM, logs, and
\* reports the text when it stayed unchanged for the stability duration
PollTick ==
  /\ capture.pollerTimer = "armed"
  /\ capture.pollerLogs < MaxPolls
  /\ LET quiet == IF capture.chunks >= 1 /\ capture.chunks = capture.lastSample
                  THEN capture.quiet + 1 ELSE 0
         sampled == [capture EXCEPT
                       !.quiet = quiet, !.lastSample = capture.chunks,
                       !.pollerLogs = @ + 1,
                       !.logsAfterWin = IF capture.winner # None THEN @ + 1 ELSE @]
     IN capture' = IF capture.chunks >= 1 /\ quiet >= requiredQuiet(capture.chunks)
                   THEN report(sampled, "poller")
                   ELSE sampled
  /\ UNCHANGED notCapture

InitCapture == Init

NextCapture ==
  \/ BeginRace
  \/ StreamChunk
  \/ Settle
  \/ ObserverFires
  \/ PollTick

SpecCapture == InitCapture /\ [][NextCapture]_vars

\* C11: exactly one answer is delivered, the answer of the path that first
\* reported a stable answer; once the winner is declared the poller's timer
\* is cleared and the observer detached, and the loser logs nothing more and
\* reports no result.
C11_FirstStablePathWins ==
  /\ capture.delivered <= 1
  /\ capture.firstReport # Null =>
       /\ capture.delivered = 1
       /\ capture.winner = capture.firstReport.path
       /\ capture.answer = capture.firstReport.text
       /\ capture.pollerTimer = "cleared"
       /\ capture.observer = "detached"
       /\ capture.logsAfterWin = 0
       /\ capture.lateResults = 0
  /\ capture.firstReport = Null => (capture.winner = None /\ capture.delivered = 0)

\* C11, its case: the observer fired while the poller was sampling, before
\* the poller's stability window had elapsed
C11_Witness ==
  /\ capture.winner = "observer"
  /\ capture.pollerLogs >= 1
  /\ capture.quiet < requiredQuiet(capture.chunks)
  /\ capture.pollerTimer = "cleared"

(* ------------------------------------------------------------------ *)
(* The remote browser bridge: remoteBrowserExecutor                   *)
(* ------------------------------------------------------------------ *)
NL == "\n"

\* the lines a remote host can write: log, error and result events, a result
\* event whose result is null, a line that is no JSON, and an empty line
EventLines ==
  { <<"log", "m1">>, <<"log", "m2">>, <<"error", "boom">>, <<"result", "r1">>,
    <<"result", "null">>, <<"{">>, <<>> }

\* the bodies of a 200 response: up to MaxLines lines
StreamsOfLines == UNION { [1..n -> EventLines] : n \in 0..MaxLines }

\* the text of a body: each line with its newline; the last line goes without
\* one when the host did not terminate it
RECURSIVE bodyText(_, _)
bodyText(lines, terminated) ==
  IF lines = <<>> THEN <<>>
  ELSE IF Len(lines) = 1
       THEN lines[1] \o (IF terminated THEN <<NL>> ELSE <<>>)
       ELSE lines[1] \o <<NL>> \o bodyText(Tail(lines), terminated)

\* JSON.parse(line) and the type of the event
parseEvent(line) ==
  IF Len(line) = 2 /\ line[1] \in {"log", "error", "result"}
  THEN [type |-> line[1], value |-> line[2]]
  ELSE [type |-> "unparseable"]

PARSE_ERROR == "Failed to parse remote event"
NO_RESULT_ERROR == "Remote browser run completed without a result."

\* a promise whose later settlement replaces the earlier one
settleOverwrites(b, outcome) == [b EXCEPT !.outcome = outcome]
\* resolve or reject of the promise: only the first settlement counts
settle(b, outcome) == IF b.outcome = Null THEN [b EXCEPT !.outcome = outcome] ELSE b

rejected(message) == [ok |-> FALSE, error |-> message]

\* handleEvent
handleEvent(b, line) ==
  LET event == parseEvent(line)
  IN CASE event.type = "unparseable" -> settle(b, rejected(PARSE_ERROR))
       [] event.type = "log" -> [b EXCEPT !.logs = Append(@, event.value)]
       [] event.type = "error" -> settle(b, rejected(event.value))
       [] OTHER -> [b EXCEPT !.resolved =
                      IF event.value = "null" THEN None ELSE event.value]

\* buffer.indexOf('\n'): 0 when there is none
RECURSIVE indexOfNewline(_, _)
indexOfNewline(buffer, i) ==
  IF i > Len(buffer) THEN 0
  ELSE IF buffer[i] = NL THEN i ELSE indexOfNewline(buffer, i + 1)

\* the while loop of the data handler
RECURSIVE drain(_)
drain(b) ==
  LET newlineIndex == indexOfNewline(b.buffer, 1)
  IN IF newlineIndex = 0 THEN b
     ELSE LET line == SubSeq(b.buffer, 1, newlineIndex - 1)
              rest == [b EXCEPT !.buffer =
                         SubSeq(b.buffer, newlineIndex + 1, Len(b.buffer))]
          IN drain(IF Len(line) > 0 THEN handleEvent(rest, line) ELSE rest)

\* res.on('data')
onData(b, chunk) == drain([b EXCEPT !.buffer = @ \o chunk])

\* res.on('end')
onEnd(b) ==
  IF b.resolved # None THEN settle(b, [ok |-> TRUE, value |-> b.resolved])
  ELSE settle(b, rejected(NO_RESULT_ERROR))

\* the call: the request is written and ended; lines and terminated are what
\* the host will answer with if it answers 200
Request(lines, terminated) ==
  /\ bridge.pc = "none"
  /\ bridge' = [bridge EXCEPT !.pc = "sent",
                              !.toSend = bodyText(lines, terminated)]
  /\ UNCHANGED notBridge

\* req.on('error'): the connection fails before a response
RequestError ==
  /\ bridge.pc = "sent"
  /\ bridge' = [settle(bridge, rejected("request error")) EXCEPT !.pc = "failed"]
  /\ UNCHANGED notBridge

\* the response callback: the status line and headers have arrived
HostResponds(status) ==
  /\ bridge.pc = "sent"
  /\ bridge' = [bridge EXCEPT !.status = status,
                              !.pc = IF status = 200 THEN "streaming"
                                     ELSE "collecting"]
  /\ UNCHANGED notBridge

\* collectError: the body of a response that is not 200 has ended
HostErrorBody(message) ==
  /\ bridge.pc = "collecting"
  /\ bridge' = [settle(bridge, rejected(message)) EXCEPT !.pc = "ended"]
  /\ UNCHANGED notBridge

\* a chunk of the body arrives: the data handler
HostSend(n) ==
  /\ bridge.pc = "streaming"
  /\ n \in 1..Min(MaxChunkLen, Len(bridge.toSend))
  /\ LET chunk == SubSeq(bridge.toSend, 1, n)
         b == [bridge EXCEPT !.toSend = SubSeq(@, n + 1, Len(@)),
                             !.received = @ \o chunk]
     IN bridge' = onData(b, chunk)
  /\ UNCHANGED notBridge

\* the body ends: the end handler
HostEnd ==
  /\ bridge.pc = "streaming"
  /\ bridge.toSend = <<>>
  /\ bridge' = [onEnd(bridge) EXCEPT !.pc = "ended"]
  /\ UNCHANGED notBridge

InitBridge == Init

NextBridge ==
  \/ \E lines \in StreamsOfLines, terminated \in BOOLEAN : Request(lines, terminated)
  \/ RequestError
  \/ \E status \in {200, 401} : HostResponds(status)
  \/ \E message \in {"unauthorized", "Remote host responded with status 401"} :
       HostErrorBody(message)
  \/ \E n \in 1..MaxChunkLen : HostSend(n)
  \/ HostEnd

SpecBridge == InitBridge /\ [][NextBridge]_vars

\* the caller's own step is taken; nothing makes the remote host answer
SpecBridgeLive ==
  /\ InitBridge
  /\ [][NextBridge]_vars
  /\ WF_vars(\E lines \in StreamsOfLines, terminated \in BOOLEAN :
               Request(lines, terminated))

(* ------------------------------------------------------------------ *)
(* Claims about the remote browser bridge                             *)
(* ------------------------------------------------------------------ *)
\* C12: a call through the remote bridge always settles: once the request is
\* sent, the call is eventually resolved or rejected, also when the host
\* never sends or never finishes the response.
C12_RemoteCallSettles ==
  (bridge.pc # "none") ~> (bridge.outcome # Null)

\* the complete lines of the text received so far, empty ones left out
RECURSIVE linesOf(_, _, _)
linesOf(text, i, cur) ==
  IF i > Len(text) THEN <<>>
  ELSE IF text[i] = NL
       THEN (IF cur = <<>> THEN <<>> ELSE <<cur>>) \o linesOf(text, i + 1, <<>>)
       ELSE linesOf(text, i + 1, Append(cur, text[i]))

receivedLines == linesOf(bridge.received, 1, <<>>)

isFailure(line) ==
  ~(Len(line) = 2 /\ line[1] \in {"log", "result"})

RECURSIVE logMessages(_)
logMessages(lines) ==
  IF lines = <<>> THEN <<>>
  ELSE (IF Len(lines[1]) = 2 /\ lines[1][1] = "log" THEN <<lines[1][2]>> ELSE <<>>)
       \o logMessages(Tail(lines))

IntervalsMs == {-1000, 0, 5000}

\* how many times the caller calls the stop function
MaxStopCalls == 2

\* what makeMessage can settle with: a message, an empty message, a throw
MessageOutcomes == {"message", "empty", "throw"}

\* a tick that returns early only when the heartbeat is stopped
tickSkipsWhenStopped(h) == h.stopped
\* if (stopped || pending) return
tickSkips(h) == h.stopped \/ h.pending

\* a stop function that does nothing
stopNothing(h) == h
\* stop
stop(h) ==
  IF h.stopped THEN h ELSE [h EXCEPT !.stopped = TRUE, !.timer = "cleared"]

\* a log of every message, stopped or not
shouldLogAnyMessage(h, o) == o = "message"
\* if (message && !stopped)
shouldLog(h, o) == o = "message" /\ ~h.stopped

\* startHeartbeat
StartHeartbeat(intervalMs, active) ==
  /\ heartbeat.pc = "none"
  /\ heartbeat' =
       IF intervalMs <= 0
       THEN [heartbeat EXCEPT !.pc = "noop", !.intervalMs = intervalMs,
                              !.active = active]
       ELSE [heartbeat EXCEPT !.pc = "started", !.intervalMs = intervalMs,
                              !.active = active, !.timer = "set"]
  /\ UNCHANGED notHeartbeat

\* the interval timer fires: the callback up to its await
HeartbeatTick ==
  /\ heartbeat.timer = "set"
  /\ heartbeat.ticks < MaxTicks
  /\ LET h == [heartbeat EXCEPT !.ticks = @ + 1]
     IN heartbeat' =
          IF tickSkips(h) THEN [h EXCEPT !.skipped = @ + 1]
          ELSE IF ~h.active THEN [stop(h) EXCEPT !.sawInactive = TRUE]
          ELSE [h EXCEPT !.pending = TRUE, !.inFlight = @ + 1,
                         !.invocations = @ + 1]
  /\ UNCHANGED notHeartbeat

\* await makeMessage(elapsed) settles: the log, the catch and the finally
MessageSettles(o) ==
  /\ heartbeat.inFlight > 0
  /\ heartbeat' = [heartbeat EXCEPT
                     !.logs = IF shouldLog(heartbeat, o) THEN @ + 1 ELSE @,
                     !.pending = FALSE,
                     !.inFlight = @ - 1,
                     !.lastOutcome = o]
  /\ UNCHANGED notHeartbeat

\* the caller calls the stop function that startHeartbeat returned
CallStop ==
  /\ heartbeat.pc = "started"
  /\ heartbeat.stopCalls < MaxStopCalls
  /\ heartbeat' = [stop(heartbeat) EXCEPT !.stopCalled = TRUE,
                                          !.stopCalls = @ + 1]
  /\ UNCHANGED notHeartbeat

\* what isActive() reports changes
SetActive(active) ==
  /\ heartbeat.pc # "none"
  /\ heartbeat.active # active
  /\ heartbeat' = [heartbeat EXCEPT !.active = active]
  /\ UNCHANGED notHeartbeat

InitHeartbeat == Init

NextHeartbeat ==
  \/ \E intervalMs \in IntervalsMs, active \in BOOLEAN :
       StartHeartbeat(intervalMs, active)
  \/ HeartbeatTick
  \/ \E o \in MessageOutcomes : MessageSettles(o)
  \/ CallStop
  \/ \E active \in BOOLEAN : SetActive(active)

SpecHeartbeat == InitHeartbeat /\ [][NextHeartbeat]_vars

(* ------------------------------------------------------------------ *)
(* Claims about the heartbeat                                         *)
(* ------------------------------------------------------------------ *)
\* C14: at most one invocation of the message callback is in flight at any
\* time; a tick that fires while one is pending invokes nothing (it is
\* skipped, and no invocation is queued for later); and when an invocation
\* settles, also by a throw, the pending state is cleared.
C14_HeartbeatCallbackNeverOverlaps ==
  /\ [](heartbeat.inFlight <= 1)
  /\ [](heartbeat.pending <=> heartbeat.inFlight = 1)
  /\ [][heartbeat.inFlight >= 1 => heartbeat'.invocations = heartbeat.invocations]_vars
  /\ [][heartbeat'.inFlight < heartbeat.inFlight => ~heartbeat'.pending]_vars

\* C14, its case: a tick was skipped while a callback was pending, the
\* callback threw, and a later tick invoked the callback again
C14_Witness ==
  /\ heartbeat.skipped >= 1
  /\ heartbeat.lastOutcome = "throw"
  /\ heartbeat.invocations >= 2
  /\ heartbeat.inFlight = 1

\* C15: once a tick has found the liveness check inactive the heartbeat is
\* stopped for good: that tick and everything after it invoke neither the
\* message callback nor the log function, also when the liveness check
\* reports active again; a heartbeat started with a non-positive interval
\* has no timer and never invokes the callback.
C15_InactiveHeartbeatStopsForGood ==
  /\ [](heartbeat.sawInactive =>
          /\ heartbeat.stopped
          /\ heartbeat.timer = "cleared"
          /\ heartbeat.inFlight = 0)
  /\ [][heartbeat'.sawInactive =>
          /\ heartbeat'.invocations = heartbeat.invocations
          /\ heartbeat'.logs = heartbeat.logs]_vars
  /\ [](heartbeat.pc = "noop" =>
          /\ heartbeat.intervalMs <= 0
          /\ heartbeat.timer = "none"
          /\ heartbeat.invocations = 0
          /\ heartbeat.logs = 0)
  /\ [](heartbeat.pc = "started" => heartbeat.intervalMs > 0)

\* C15, its case: a tick found the liveness check inactive after the
\* callback had run, and the liveness check reports active again
C15_Witness ==
  /\ heartbeat.sawInactive
  /\ heartbeat.active
  /\ heartbeat.invocations >= 1
  /\ heartbeat.logs >= 1
  /\ heartbeat.stopped

\* ---------------------------------------------------------------------------
\* Provider selection, per-model options, request bodies and session listings:
\* functions of their arguments.  `pure` holds the last call and what it
\* returned.
\* ---------------------------------------------------------------------------

\* model names as texts
CLAUDE_SONNET == <<"c","l","a","u","d","e","-","4",".","5","-","s","o","n","n","e","t">>
CLAUDE_BARE == <<"c","l","a","u","d","e">>
CLAU == <<"c","l","a","u">>
GPT_PRO == <<"g","p","t","-","5",".","1","-","p","r","o">>
GEMINI_PRO == <<"g","e","m","i","n","i","-","3","-","p","r","o">>
GEM == <<"g","e","m">>

ModelTexts == {CLAUDE_SONNET, CLAUDE_BARE, CLAU, GPT_PRO, GEMINI_PRO, GEM}

\* String.prototype.startsWith
startsWith(text, prefix) ==
    /\ Len(text) >= Len(prefix)
    /\ SubSeq(text, 1, Len(prefix)) = prefix

\* the Anthropic family of model names
isClaude(model) == startsWith(model, <<"c","l","a","u","d","e">>)

isGpt(model) == startsWith(model, <<"g","p","t">>)

SESSION_ID == <<"s","1">>

\* runOptions of a multi-model run: background may be absent
RunOptionsSet ==
    [prompt : {"hello"}, model : {GPT_PRO}, models : {"list"},
     search : BOOLEAN, background : BOOLEAN]
    \cup [prompt : {"hello"}, model : {GPT_PRO}, models : {"list"},
          search : BOOLEAN]

\* { ...runOptions, model, models: undefined, sessionId: `${id}:${model}` }
perModelOptions(runOptions, model, sessionId) ==
    [k \in ((DOMAIN runOptions) \ {"models"}) \cup {"model", "sessionId"} |->
        CASE k = "model" -> model
          [] k = "sessionId" -> sessionId \o <<":">> \o model
          [] OTHER -> runOptions[k]]

\* startModelExecution builds the options it hands to runOracleImpl
PerModelOptions ==
    /\ \E runOptions \in RunOptionsSet, model \in ModelTexts :
          pure' = [op |-> "startModelExecution", runOptions |-> runOptions,
                   model |-> model,
                   options |-> perModelOptions(runOptions, model, SESSION_ID)]
    /\ UNCHANGED notPure

backgroundRequested ==
    /\ pure.op = "startModelExecution"
    /\ "background" \in DOMAIN pure.runOptions
    /\ pure.runOptions.background

\* C16: in a multi-model run whose base options request background
\* execution, the options of every claude model have background false and
\* the options of a GPT model have background as requested
C16_BackgroundForcedOffForClaude ==
    backgroundRequested =>
        /\ isClaude(pure.model) =>
              /\ "background" \in DOMAIN pure.options
              /\ pure.options.background = FALSE
        /\ isGpt(pure.model) =>
              /\ "background" \in DOMAIN pure.options
              /\ pure.options.background = pure.runOptions.background

\* the options a client is built with: model and Azure endpoint may be absent
ClientOptionsSet ==
    [model : ModelTexts, azure : {"endpoint"}]
    \cup [model : ModelTexts]
    \cup {[azure |-> "endpoint"], <<>>}

ThreeOperations == {"stream", "create", "retrieve"}

\* createGeminiClient: responses.stream, responses.create, responses.retrieve
createGeminiClient == [adapter |-> "gemini", operations |-> ThreeOperations]

\* createAnthropicClient: responses.stream, responses.create, responses.retrieve
createAnthropicClient == [adapter |-> "anthropic", operations |-> ThreeOperations]

\* new AzureOpenAI(...) or new OpenAI(...), wrapped with the given operations
nativeClient(options, operations) ==
    [adapter |-> IF "azure" \in DOMAIN options THEN "azure" ELSE "openai",
     operations |-> operations]

\* the factory of the built program: (key, options) => client, with no
\* custom factory configured
createDefaultClientFactory(options) ==
    IF "model" \in DOMAIN options
          /\ startsWith(options.model, <<"g","e","m","i","n","i">>)
    THEN createGeminiClient
    ELSE nativeClient(options, ThreeOperations)

\* the factory of the TypeScript source: (key) => client
createDefaultClientFactoryTs(options) ==
    [adapter |-> "openai", operations |-> {"stream"}]

Factories == {"dist", "ts"}

\* a client is built for a run
CreateClient ==
    /\ \E options \in ClientOptionsSet, factory \in Factories :
          pure' = [op |-> "createClient", options |-> options,
                   factory |-> factory,
                   client |-> IF factory = "dist"
                              THEN createDefaultClientFactory(options)
                              ELSE createDefaultClientFactoryTs(options)]
    /\ UNCHANGED notPure

\* C17: a gemini model gets the Gemini adapter, a claude model the Anthropic
\* adapter, every other model the native client (Azure when an Azure
\* endpoint is configured), and every client offers stream, create and
\* retrieve
C17_FactoryDispatchesOnModelName ==
    (pure.op = "createClient" /\ "model" \in DOMAIN pure.options) =>
        /\ pure.client.operations = ThreeOperations
        /\ pure.client.adapter =
              IF startsWith(pure.options.model, <<"g","e","m","i","n","i">>)
              THEN "gemini"
              ELSE IF isClaude(pure.options.model)
              THEN "anthropic"
              ELSE IF "azure" \in DOMAIN pure.options THEN "azure"
              ELSE "openai"

\* search support by model
toolSupportAlways(model) == [search |-> TRUE]

\* toolSupportForModel
toolSupportForModel(model) ==
    IF startsWith(model, <<"c","l","a","u","d","e">>)
    THEN [search |-> FALSE]
    ELSE [search |-> TRUE]

WEB_SEARCH_TOOLS == <<[type |-> "web_search_preview"]>>

DEFAULT_MAX_OUTPUT_TOKENS == 1024

SystemPrompts == {<<>>, <<" ">>, <<"s","y","s">>}

\* the arguments of buildRequestBody
RequestArgs ==
    [model : ModelTexts, systemPrompt : SystemPrompts, userPrompt : {"hello"},
     searchEnabled : BOOLEAN, maxOutputTokens : {4096},
     background : BOOLEAN, storeResponse : BOOLEAN]
    \cup [model : ModelTexts, systemPrompt : SystemPrompts,
          userPrompt : {"hello"}, searchEnabled : BOOLEAN,
          background : BOOLEAN, storeResponse : BOOLEAN]

\* the fields of a request body that are not undefined
bodyFields(a) ==
    {"model", "instructions", "input"}
        \cup (IF a.searchEnabled THEN {"tools"} ELSE {})
        \cup (IF "maxOutputTokens" \in DOMAIN a
              THEN {"max_output_tokens"} ELSE {})
        \cup (IF a.background THEN {"background"} ELSE {})
        \cup (IF a.storeResponse THEN {"store"} ELSE {})

\* buildRequestBody (modelConfig.reasoning left out)
buildRequestBody(a) ==
    [k \in bodyFields(a) |->
        CASE k = "model" -> a.model
          [] k = "instructions" -> a.systemPrompt
          [] k = "input" ->
                <<[role |-> "user",
                   content |-> <<[type |-> "input_text", text |-> a.userPrompt]>>]>>
          [] k = "tools" -> WEB_SEARCH_TOOLS
          [] k = "max_output_tokens" -> a.maxOutputTokens
          [] k = "background" -> TRUE
          [] k = "store" -> TRUE]

\* instructions.trim().length > 0
hasText(text) == \E i \in 1..Len(text) : text[i] # " "

\* the text pieces of body.input joined
userTextOf(body) ==
    IF Len(body.input) = 0 THEN "" ELSE body.input[1].content[1].text

\* buildAnthropicParams: model, max_tokens, one user message and, when the
\* instructions are not blank, system; never any tools
buildAnthropicParams(body, model) ==
    [k \in {"model", "max_tokens", "messages"}
            \cup (IF hasText(body.instructions) THEN {"system"} ELSE {}) |->
        CASE k = "model" -> model
          [] k = "max_tokens" ->
                IF "max_output_tokens" \in DOMAIN body
                THEN body.max_output_tokens
                ELSE DEFAULT_MAX_OUTPUT_TOKENS
          [] k = "messages" ->
                <<[role |-> "user",
                   content |-> <<[type |-> "text", text |-> userTextOf(body)]>>]>>
          [] k = "system" -> body.instructions]

\* a request is built for a model: the capability registry is asked, the
\* request body is built, and the Anthropic adapter turns it into its
\* parameters
BuildRequest ==
    /\ \E a \in RequestArgs :
          LET body == buildRequestBody(a)
          IN  pure' = [op |-> "buildRequest", args |-> a,
                       support |-> toolSupportForModel(a.model),
                       body |-> body,
                       params |-> buildAnthropicParams(body, a.model)]
    /\ UNCHANGED notPure

\* C18: for a claude model the registry reports search unsupported and the
\* Anthropic request holds no web-search tool whatever was requested; for
\* any other model the registry reports search supported and the request
\* body holds the web-search tool exactly when search is enabled
C18_SearchNeverSentToAnthropic ==
    pure.op = "buildRequest" =>
        IF isClaude(pure.args.model)
        THEN /\ pure.support.search = FALSE
             /\ "tools" \notin DOMAIN pure.params
        ELSE /\ pure.support.search = TRUE
             /\ ("tools" \in DOMAIN pure.body) <=> pure.args.searchEnabled
             /\ "tools" \in DOMAIN pure.body =>
                    pure.body.tools = WEB_SEARCH_TOOLS

\* a claude request with search enabled: the body holds the tool, the
\* Anthropic parameters do not
C18_Witness ==
    /\ pure.op = "buildRequest"
    /\ pure.args.model = CLAUDE_SONNET
    /\ pure.args.searchEnabled
    /\ "tools" \in DOMAIN pure.body
    /\ "tools" \notin DOMAIN pure.params
    /\ pure.support.search = FALSE

\* the model names in the order of String.prototype.localeCompare
NameOrder == <<"claude-4.5-sonnet", "gemini-3-pro", "gpt-5.1-pro">>

nameRank(model) == CHOOSE i \in 1..Len(NameOrder) : NameOrder[i] = model

\* a.model.localeCompare(b.model)
localeCompareModel(a, b) == nameRank(a) - nameRank(b)

\* recorded start times (ISO timestamps of one format compare as their
\* instants do)
StartTimes == {1, 2}

\* a model record as listModelRunFiles returns it; 0 stands for a record
\* that has no startedAt
modelRun(model, startedAt) ==
    IF startedAt = 0 THEN [model |-> model]
    ELSE [model |-> model, startedAt |-> startedAt]

\* what listModelRunFiles can return: the records of different models in
\* the order of the directory listing
RunListings ==
    UNION { { [i \in 1..Len(ms) |-> modelRun(ms[i], st[i])] :
                st \in [1..Len(ms) -> StartTimes \cup {0}] } :
            ms \in ModelLists }

started(run) == "startedAt" \in DOMAIN run

\* the comparator of readSessionLog
compareRuns(a, b) ==
    IF started(a) /\ started(b)
    THEN a.startedAt - b.startedAt
    ELSE localeCompareModel(a.model, b.model)

\* a comparator the language calls consistent on these elements: an order
\* with ties
consistentComparator(runs) ==
    \A i, j, k \in 1..Len(runs) :
        /\ (compareRuns(runs[i], runs[j]) <= 0 /\ compareRuns(runs[j], runs[k]) <= 0)
              => compareRuns(runs[i], runs[k]) <= 0
        /\ (compareRuns(runs[i], runs[j]) < 0 /\ compareRuns(runs[j], runs[k]) <= 0)
              => compareRuns(runs[i], runs[k]) < 0
        /\ (compareRuns(runs[i], runs[j]) <= 0 /\ compareRuns(runs[j], runs[k]) < 0)
              => compareRuns(runs[i], runs[k]) < 0

orderings(runs) ==
    { p \in [1..Len(runs) -> 1..Len(runs)] :
        \A i, j \in 1..Len(runs) : i # j => p[i] # p[j] }

\* Array.prototype.sort: stable, so equal elements keep the order of the
\* listing; with a comparator that is not consistent the order is left to
\* the implementation
sortOutcomes(runs) ==
    IF consistentComparator(runs)
    THEN { p \in orderings(runs) :
             \A i, j \in 1..Len(runs) : i < j =>
                 \/ compareRuns(runs[p[i]], runs[p[j]]) < 0
                 \/ compareRuns(runs[p[i]], runs[p[j]]) = 0 /\ p[i] < p[j] }
    ELSE orderings(runs)

\* readSessionLog of a session that has model records: the sections of the
\* combined log, each under its `=== model ===` header
ReadSessionLog ==
    /\ \E runs \in RunListings :
          \E p \in sortOutcomes(runs) :
              pure' = [op |-> "readSessionLog", runs |-> runs,
                       sections |-> [i \in 1..Len(runs) |-> runs[p[i]].model]]
    /\ UNCHANGED notPure

startedAtOf(runs, model) ==
    LET i == CHOOSE k \in 1..Len(runs) : runs[k].model = model
    IN  runs[i].startedAt

\* C19: the sections are in the order of the recorded start times and,
\* among models with equal start times, of the model names, whatever the
\* order of the directory listing
C19_SectionsByStartThenName ==
    (pure.op = "readSessionLog"
        /\ \A i \in 1..Len(pure.runs) : started(pure.runs[i])) =>
        \A i, j \in 1..Len(pure.sections) : i < j =>
            LET a == pure.sections[i]
                b == pure.sections[j]
            IN  \/ startedAtOf(pure.runs, a) < startedAtOf(pure.runs, b)
                \/ /\ startedAtOf(pure.runs, a) = startedAtOf(pure.runs, b)
                   /\ localeCompareModel(a, b) < 0

MaxMetas == 2

MAX_STATUS_LIMIT == 1000

HOUR_MS == 3600000

\* Date.now() when the listing is filtered
NOW_MS == 360000000

\* creation times: 25 hours, exactly 24 hours and one hour before now
CreatedAts == {NOW_MS - 25 * HOUR_MS, NOW_MS - 24 * HOUR_MS, NOW_MS - HOUR_MS}

\* what listSessionsMetadata returns: sessions sorted newest first
MetaLists ==
    UNION { { ms \in [1..n -> CreatedAts] :
                \A i \in 1..n, j \in 1..n : i < j => ms[i] >= ms[j] } :
            n \in 0..MaxMetas }

HoursWindows == {1, 24}

\* the limit is any number the caller passes
Limits == {-1, 0, 1, 2, 1001}

\* Array.prototype.slice(0, end)
slice0(array, end) ==
    LET len == Len(array)
        final == IF end < 0
                 THEN (IF len + end > 0 THEN len + end ELSE 0)
                 ELSE Min(end, len)
    IN  SubSeq(array, 1, final)

\* filterSessionsByRange(metas, { hours, includeAll, limit })
filterSessionsByRange(metas, hours, includeAll, limit) ==
    LET maxLimit == Min(limit, MAX_STATUS_LIMIT)
        cutoff == NOW_MS - hours * 60 * 60 * 1000
        inWindow(createdAt) == createdAt >= cutoff
        filtered == IF includeAll THEN metas ELSE SelectSeq(metas, inWindow)
    IN  [entries |-> slice0(filtered, maxLimit),
         truncated |-> Len(filtered) > maxLimit,
         total |-> Len(filtered)]

\* the sessions listing is filtered
FilterSessions ==
    /\ \E metas \in MetaLists, hours \in HoursWindows,
          includeAll \in BOOLEAN, limit \in Limits :
          pure' = [op |-> "filterSessions", metas |-> metas, hours |-> hours,
                   includeAll |-> includeAll, limit |-> limit,
                   result |-> filterSessionsByRange(metas, hours, includeAll, limit)]
    /\ UNCHANGED notPure

\* the sessions of the listing that were created inside the window (all of
\* them when include-all is set)
insideWindow ==
    LET within(createdAt) == NOW_MS - createdAt <= pure.hours * HOUR_MS
    IN  IF pure.includeAll THEN pure.metas ELSE SelectSeq(pure.metas, within)

\* C20: at most min(limit, 1000) entries are returned, they are the newest
\* of the sessions inside the window, total counts the sessions inside the
\* window, and truncated is true exactly when total is larger than the
\* number of entries returned
C20_FilterReturnsNewestWithinLimit ==
    pure.op = "filterSessions" =>
        /\ Len(pure.result.entries) <= Min(pure.limit, MAX_STATUS_LIMIT)
        /\ Len(pure.result.entries) <= Len(insideWindow)
        /\ pure.result.entries = SubSeq(insideWindow, 1, Len(pure.result.entries))
        /\ pure.result.total = Len(insideWindow)
        /\ pure.result.truncated <=> pure.result.total > Len(pure.result.entries)

InitPure == Init

NextPure ==
    \/ PerModelOptions
    \/ CreateClient
    \/ BuildRequest
    \/ ReadSessionLog
    \/ FilterSessions

SpecPure == InitPure /\ [][NextPure]_vars

\* ---------------------------------------------------------------------------
\* Pruning the sessions directory (deleteSessionsOlderThan)
\* ---------------------------------------------------------------------------

MaxPruneDirs == 2

PruneEntryNames == <<"s1", "s2", "s3">>

\* what a prune can find about one entry of the sessions directory: whether
\* its metadata can be read and holds a createdAt that Date.parse accepts,
\* and the timestamps fs.stat reports (birthtimeMs is 0 where the file
\* system records none)
PruneEntryStates ==
    [meta : {"ok"}, createdAt : CreatedAts,
     birthtimeMs : {0, NOW_MS - 25 * HOUR_MS, NOW_MS - HOUR_MS},
     mtimeMs : {NOW_MS - 25 * HOUR_MS, NOW_MS - HOUR_MS}]
    \cup [meta : {"none", "badCreatedAt"}, createdAt : {0},
          birthtimeMs : {0, NOW_MS - 25 * HOUR_MS, NOW_MS - HOUR_MS},
          mtimeMs : {NOW_MS - 25 * HOUR_MS, NOW_MS - HOUR_MS}]

PruneListings ==
    UNION { [{PruneEntryNames[i] : i \in 1..n} -> PruneEntryStates] :
            n \in 0..Min(MaxPruneDirs, Len(PruneEntryNames)) }

\* the fallback reads the modification time only
mtimeOnly(entry) == entry.mtimeMs

\* stats.birthtimeMs || stats.mtimeMs
statCreatedMs(entry) ==
    IF entry.birthtimeMs # 0 THEN entry.birthtimeMs ELSE entry.mtimeMs

\* createdMs of the loop body: Date.parse(meta.createdAt) when the metadata
\* has one that parses, else the directory's timestamp
createdMsOf(entry) ==
    IF entry.meta = "ok" THEN entry.createdAt ELSE statCreatedMs(entry)

\* the entries the loop removes
prunedEntries(entries, hours, includeAll) ==
    LET cutoff == NOW_MS - hours * 60 * 60 * 1000
    IN  { e \in DOMAIN entries : includeAll \/ createdMsOf(entries[e]) < cutoff }

\* deleteSessionsOlderThan({ hours, includeAll }): the directory after the
\* loop and the counts the call returns
deleteSessionsOlderThan(entries, hours, includeAll) ==
    LET gone == prunedEntries(entries, hours, includeAll)
        deleted == Cardinality(gone)
    IN  IF DOMAIN entries = {}
        THEN [entries |-> entries, before |-> entries,
              call |-> [hours |-> hours, includeAll |-> includeAll,
                        deleted |-> 0, remaining |-> 0]]
        ELSE [entries |-> [e \in DOMAIN entries \ gone |-> entries[e]],
              before |-> entries,
              call |-> [hours |-> hours, includeAll |-> includeAll,
                        deleted |-> deleted,
                        remaining |->
                           IF Cardinality(DOMAIN entries) - deleted > 0
                           THEN Cardinality(DOMAIN entries) - deleted
                           ELSE 0]]

\* a call of deleteSessionsOlderThan while nothing else runs
DeleteSessionsOlderThan(hours, includeAll) ==
    /\ sessionsDir' = deleteSessionsOlderThan(sessionsDir.entries, hours, includeAll)
    /\ UNCHANGED notPrune

InitPrune ==
    /\ StoreInit
    /\ creators = <<>>
    /\ IdleRunner
    /\ IdleResume
    /\ IdleRecheck
    /\ IdleCapture
    /\ IdleBridge
    /\ IdleHeartbeat
    /\ IdlePure
    /\ \E listing \in PruneListings :
          sessionsDir = [entries |-> listing, before |-> <<>>, call |-> Null]

NextPrune ==
    \E hours \in HoursWindows, includeAll \in BOOLEAN :
        DeleteSessionsOlderThan(hours, includeAll)

SpecPrune == InitPrune /\ [][NextPrune]_vars

\* the creation time of an entry: the stored createdAt, else the
\* directory's filesystem timestamp
creationTime(entry) ==
    IF entry.meta = "ok" THEN entry.createdAt
    ELSE IF entry.birthtimeMs # 0 THEN entry.birthtimeMs
    ELSE entry.mtimeMs

\* C21: after a prune every entry older than the cutoff is gone and every
\* younger one is still there; with include-all every entry is gone; the
\* deleted and remaining counts add up to the number of entries before
C21_PruneDeletesExactlyTheOld ==
    sessionsDir.call # Null =>
        LET before == sessionsDir.before
            after == sessionsDir.entries
            call == sessionsDir.call
        IN  /\ \A e \in DOMAIN before :
                  /\ call.includeAll => e \notin DOMAIN after
                  /\ (~call.includeAll
                        /\ NOW_MS - creationTime(before[e]) > call.hours * HOUR_MS)
                       => e \notin DOMAIN after
                  /\ (~call.includeAll
                        /\ NOW_MS - creationTime(before[e]) < call.hours * HOUR_MS)
                       => (e \in DOMAIN after /\ after[e] = before[e])
            /\ DOMAIN after \subseteq DOMAIN before
            /\ call.deleted + call.remaining = Cardinality(DOMAIN before)
            /\ call.deleted = Cardinality(DOMAIN before \ DOMAIN after)

\* a prune with a 24 hours cutoff removed an entry that has no readable
\* metadata and no birth time, by its modification time, and kept a younger
\* one
C21_Witness ==
    /\ sessionsDir.call # Null
    /\ ~sessionsDir.call.includeAll
    /\ sessionsDir.call.hours = 24
    /\ sessionsDir.call.deleted = 1
    /\ sessionsDir.call.remaining = 1
    /\ \E e \in DOMAIN sessionsDir.before \ DOMAIN sessionsDir.entries :
          /\ sessionsDir.before[e].meta = "none"
          /\ sessionsDir.before[e].birthtimeMs = 0
          /\ sessionsDir.before[e].mtimeMs = NOW_MS - 25 * HOUR_MS

\* ---------------------------------------------------------------------------
\* Creating sessions with custom slugs
\* ---------------------------------------------------------------------------

\* custom slugs of 0, 2, 3 and 7 words, one with a word of 12 characters
CustomSlugTexts ==
    { <<"!", "!">>,
      <<"a", " ", "b">>,
      <<"a", " ", "b", " ", "c">>,
      <<"A", "-", "b", "_", "c", " ", "d", ".", "e", " ", "f", " ", "g">>,
      <<"a", "b", "c", "d", "e", "f", "g", "h", "i", "j", "k", "l", " ", "b", " ", "c">> }

NextCustomSlugCreates ==
    \/ /\ Cardinality(dirs) < MaxCreates
       /\ \E prompt \in StorePrompts, customSlug \in CustomSlugTexts \cup {<<>>} :
            Create(prompt, customSlug)
    \/ \E t \in Times : Tick(t)

SpecCustomSlugCreates == Init /\ [][NextCustomSlugCreates]_vars

\* the lower-cased alphanumeric words of a text
wordsOf(text) ==
    Runs([i \in 1..Len(text) |-> toLowerCase(text[i])], AlnumChars, 1, <<>>, <<>>)

\* the number of words the normalisation keeps
keptWords(text) == Min(Len(wordsOf(text)), MAX_SLUG_WORDS)

\* a create with a custom slug whose kept words number 3 to 5 makes one new
\* session directory with its metadata file; any other create with a custom
\* slug fails and leaves the directories and metadata files as they were
customCreateStep(customSlug) ==
    IF keptWords(customSlug) >= MIN_CUSTOM_SLUG_WORDS
          /\ keptWords(customSlug) <= MAX_SLUG_WORDS
    THEN /\ lastOp'.ok
         /\ lastOp'.id \notin dirs
         /\ dirs' = dirs \cup {lastOp'.id}
         /\ lastOp'.id \in DOMAIN metaFile'
         /\ lastOp'.base = slugify(customSlug, MAX_SLUG_WORDS)
    ELSE /\ ~lastOp'.ok
         /\ dirs' = dirs
         /\ metaFile' = metaFile
         /\ modelFiles' = modelFiles

\* C22: a create with a custom slug succeeds only if the normalised custom
\* text has between 3 and 5 words; otherwise it fails with the invalid-slug
\* error and no session directory, metadata file or model record is created
C22_CustomSlugNeedsThreeToFiveWords ==
    [][\A prompt \in StorePrompts, customSlug \in CustomSlugTexts :
          Create(prompt, customSlug) => customCreateStep(customSlug)]_vars

\* a create with a custom slug of two words failed while sessions exist
C22_Witness ==
    /\ lastOp.op = "create"
    /\ ~lastOp.ok
    /\ lastOp.base = <<"a", "-", "b">>
    /\ dirs # {}

\* ---------------------------------------------------------------------------
\* Cookies: expiration normalisation and injection
\* ---------------------------------------------------------------------------

\* Numbers beyond 2^31 are written as millions and units:
\* the number m * 1,000,000 + u with 0 <= u < 1,000,000
MILLION == 1000000

num(m, u) == [m |-> m, u |-> u]

numOf(n) == num(n \div MILLION, n % MILLION)

greater(a, b) == a.m > b.m \/ (a.m = b.m /\ a.u > b.u)

minus(a, b) ==
    IF a.u - b.u < 0
    THEN num(a.m - b.m - 1, a.u - b.u + MILLION)
    ELSE num(a.m - b.m, a.u - b.u)

\* 1_000_000_000_000
TRILLION == num(1000000, 0)

\* 1_000_000_000
BILLION == num(1000, 0)

\* 11644473600: the seconds from 1601-01-01 to 1970-01-01
CHROMIUM_EPOCH_SECONDS == num(11644, 473600)

ZERO == num(0, 0)

UNDEFINED == [undefined |-> TRUE]

NAN == [nan |-> TRUE]

\* Math.round(value / 1_000_000): halves round up
roundMillionth(value) ==
    numOf(value.m + (IF 2 * value.u >= MILLION THEN 1 ELSE 0))

\* Math.round(value / 1000), for a value of at most 10^12
roundThousandth(value) ==
    numOf(value.m * 1000 + (value.u + 500) \div 1000)

\* the expirations a cookie can carry
Expirations ==
    { UNDEFINED, NAN, ZERO, num(-1, 999995), num(0, 1), num(0, 1700000),
      BILLION, num(1000, 1), num(1700, 0), num(1700, 499), num(1700, 500),
      TRILLION, num(1000000, 1), num(1700000, 0), num(1700000, 499999),
      num(1700000, 500000), num(13350000, 0) }

\* the tests of the inline copy with >= in the place of >
normalizeExpirationAtThreshold(expires) ==
    IF expires = UNDEFINED \/ expires = NAN \/ expires = ZERO THEN UNDEFINED
    ELSE IF ~greater(expires, ZERO) THEN UNDEFINED
    ELSE IF ~greater(TRILLION, expires)
    THEN minus(roundMillionth(expires), CHROMIUM_EPOCH_SECONDS)
    ELSE IF ~greater(BILLION, expires) THEN roundThousandth(expires)
    ELSE expires

\* normalizeExpiration of the cookie-store reader
normalizeExpiration(expires) ==
    IF expires = UNDEFINED \/ expires = NAN \/ expires = ZERO THEN UNDEFINED
    ELSE IF ~greater(expires, ZERO) THEN UNDEFINED
    ELSE IF greater(expires, TRILLION)
    THEN minus(roundMillionth(expires), CHROMIUM_EPOCH_SECONDS)
    ELSE IF greater(expires, BILLION) THEN roundThousandth(expires)
    ELSE expires

\* normalizeExpiration of the cookie sync: the copy used for inline cookies
normalizeExpirationInline(expires) ==
    IF expires = UNDEFINED \/ expires = NAN \/ expires = ZERO THEN UNDEFINED
    ELSE IF ~greater(expires, ZERO) THEN UNDEFINED
    ELSE IF greater(expires, TRILLION)
    THEN minus(roundMillionth(expires), CHROMIUM_EPOCH_SECONDS)
    ELSE IF greater(expires, BILLION) THEN roundThousandth(expires)
    ELSE expires

\* a cookie's expiration is normalised by one of the two functions
NormalizeExpiration ==
    /\ pure.op = "none"
    /\ \E expires \in Expirations, inline \in BOOLEAN :
          pure' = [op |-> "normalizeExpiration", expires |-> expires,
                   inline |-> inline,
                   result |-> IF inline THEN normalizeExpirationInline(expires)
                              ELSE normalizeExpiration(expires)]
    /\ UNCHANGED notPure

\* what the normalisation is to return for an expiration
expectedExpiration(expires) ==
    IF expires \in {UNDEFINED, NAN, ZERO} \/ expires.m < 0 THEN UNDEFINED
    ELSE IF expires.m > 1000000 \/ (expires.m = 1000000 /\ expires.u > 0)
    THEN minus(roundMillionth(expires), CHROMIUM_EPOCH_SECONDS)
    ELSE IF expires.m > 1000 \/ (expires.m = 1000 /\ expires.u > 0)
    THEN roundThousandth(expires)
    ELSE expires

\* C24: both normalisations map an absent, zero, negative or NaN expiration
\* to none, a value above 10^12 to round(value / 1,000,000 - 11,644,473,600),
\* a value above 10^9 and at most 10^12 to round(value / 1000), and any other
\* positive value to itself rounded
C24_ExpirationNormalised ==
    pure.op = "normalizeExpiration" =>
        /\ pure.result = expectedExpiration(pure.expires)
        /\ pure.expires = num(1700, 0) => pure.result = num(1, 700000)
        /\ pure.expires = num(1700000, 0) => pure.result = num(-11643, 226400)
        /\ pure.expires = BILLION => pure.result = BILLION
        /\ pure.expires = TRILLION => pure.result = num(1000, 0)

\* the inline copy was given exactly 10^12 and took it for milliseconds
C24_Witness ==
    /\ pure.op = "normalizeExpiration"
    /\ pure.inline
    /\ pure.expires = TRILLION
    /\ pure.result = BILLION

MaxCookies == 2

LOCALHOST == <<"l","o","c","a","l","h","o","s","t">>
PLAIN_HOST == <<"x",".","i","o">>
DOTTED_HOST == <<".","x",".","i","o">>
HTTPS == <<"h","t","t","p","s",":","/","/">>

\* the page whose cookies are synchronised, and new URL(url).hostname
TARGET_URL == HTTPS \o <<"c",".","i","o","/">>
TARGET_HOST == <<"c",".","i","o">>

\* a url that an inline cookie brings itself
OWN_URL == HTTPS \o <<"o",".","i","o">>

\* the domains a cookie can come with: the empty text, localhost, a plain
\* host and a host with a leading dot (or no domain field at all)
CookieDomains == {<<>>, LOCALHOST, PLAIN_HOST, DOTTED_HOST}

\* cookies as the caller passes them inline: name, domain and url may be
\* missing
InlineCookieShapes ==
    { [f \in fields |->
          CASE f = "name" -> "sid"
            [] f = "value" -> "v"
            [] f = "domain" -> domain
            [] f = "url" -> OWN_URL
            [] f = "expires" -> num(1700, 0)] :
      fields \in { fs \in SUBSET {"name", "value", "domain", "url", "expires"} :
                     {"value", "expires"} \subseteq fs },
      domain \in CookieDomains }

\* cookies as the cookie store returns them
StoreCookieShapes ==
    { [f \in fields |->
          CASE f = "name" -> "sid"
            [] f = "value" -> "v"
            [] f = "domain" -> domain
            [] f = "expires" -> num(13350000, 0)] :
      fields \in { fs \in SUBSET {"name", "value", "domain", "expires"} :
                     {"value", "expires"} \subseteq fs },
      domain \in CookieDomains }

cookieLists(shapes) ==
    UNION { [1..n -> shapes] : n \in 0..MaxCookies }

has(cookie, field) == field \in DOMAIN cookie

\* the fields of a normalised cookie that are not undefined
withExpires(cookie, expires) ==
    [f \in (DOMAIN cookie \ {"expires"})
             \cup (IF expires = UNDEFINED THEN {} ELSE {"expires"}) |->
        IF f = "expires" THEN expires ELSE cookie[f]]

\* one inline cookie with its defaults (lines 65-74)
normalizedInline(cookie, fallbackHost) ==
    withExpires(
        [f \in DOMAIN cookie \cup {"name", "value", "domain", "path", "secure", "httpOnly"} |->
            CASE f = "domain" -> IF has(cookie, "domain") THEN cookie.domain ELSE fallbackHost
              [] f = "path" -> "/"
              [] f = "secure" -> TRUE
              [] f = "httpOnly" -> FALSE
              [] OTHER -> cookie[f]],
        normalizeExpirationInline(cookie.expires))

\* normalizeCookie of the cookie-store reader: a leading dot is cut from
\* the domain
normalizeCookie(cookie, fallbackHost) ==
    withExpires(
        [name |-> cookie.name, value |-> cookie.value,
         domain |-> IF has(cookie, "domain")
                    THEN (IF Len(cookie.domain) > 0 /\ cookie.domain[1] = "."
                          THEN Tail(cookie.domain) ELSE cookie.domain)
                    ELSE fallbackHost,
         path |-> "/", expires |-> UNDEFINED, secure |-> TRUE, httpOnly |-> FALSE],
        normalizeExpiration(cookie.expires))

\* the Map keyed by `${domain}:${name}`: the first cookie of a key stays
RECURSIVE mergeByKey(_, _)
mergeByKey(cookies, merged) ==
    IF cookies = <<>> THEN merged
    ELSE LET cookie == Head(cookies)
         IN  IF \E i \in 1..Len(merged) :
                   merged[i].domain = cookie.domain /\ merged[i].name = cookie.name
             THEN mergeByKey(Tail(cookies), merged)
             ELSE mergeByKey(Tail(cookies), Append(merged, cookie))

named(cookie) == has(cookie, "name")

\* normalizeInlineCookies(rawCookies, fallbackHost)
normalizeInlineCookies(rawCookies, fallbackHost) ==
    LET kept == SelectSeq(rawCookies, named)
    IN  mergeByKey([i \in 1..Len(kept) |-> normalizedInline(kept[i], fallbackHost)], <<>>)

\* readChromeCookies / loadChromeCookies for the target url
readChromeCookies(rawCookies, fallbackHost) ==
    LET kept == SelectSeq(rawCookies, named)
    IN  mergeByKey([i \in 1..Len(kept) |-> normalizeCookie(kept[i], fallbackHost)], <<>>)

\* attachUrl(cookie, fallbackUrl)
attachUrl(cookie, fallbackUrl) ==
    LET url ==
            IF has(cookie, "url") /\ cookie.url # <<>> THEN cookie.url
            ELSE IF ~has(cookie, "domain") \/ cookie.domain = <<>>
                    \/ cookie.domain = LOCALHOST
            THEN fallbackUrl
            ELSE IF cookie.domain[1] # "." THEN HTTPS \o cookie.domain
            ELSE <<>>
    IN  IF url # <<>>
        THEN [f \in (DOMAIN cookie \ {"domain"}) \cup {"url"} |->
                 IF f = "url" THEN url ELSE cookie[f]]
        ELSE cookie

\* syncCookies: the cookies handed to Network.setCookie, in order
SyncCookies ==
    /\ pure.op = "none"
    /\ \E inline \in BOOLEAN :
          \E raw \in cookieLists(IF inline THEN InlineCookieShapes
                                 ELSE StoreCookieShapes) :
              LET cookies == IF inline /\ Len(raw) > 0
                             THEN normalizeInlineCookies(raw, TARGET_HOST)
                             ELSE readChromeCookies(raw, TARGET_HOST)
              IN  pure' = [op |-> "syncCookies", inline |-> inline, raw |-> raw,
                           sent |-> [i \in 1..Len(cookies) |->
                                        attachUrl(cookies[i], TARGET_URL)]]
    /\ UNCHANGED notPure

\* C23: every cookie passed to setCookie carries a url and no domain field
C23_InjectedCookieHasUrlAndNoDomain ==
    pure.op = "syncCookies" =>
        \A i \in 1..Len(pure.sent) :
            /\ has(pure.sent[i], "url")
            /\ ~has(pure.sent[i], "domain")

\* the caller has taken the result of the call
CallReturns ==
    /\ pure.op # "none"
    /\ pure' = [op |-> "none"]
    /\ UNCHANGED notPure

InitCookies == Init

NextCookies ==
    \/ NormalizeExpiration
    \/ SyncCookies
    \/ CallReturns

SpecCookies == InitCookies /\ [][NextCookies]_vars

\* ---------------------------------------------------------------------------
\* File discovery (readFiles) on the native file system
\* ---------------------------------------------------------------------------

MAX_FILE_SIZE_BYTES == 1048576

DEFAULT_IGNORED_DIRS ==
    {"node_modules", "dist", "coverage", ".git", ".turbo", ".next", "build", "tmp"}

\* the path segments that start with a dot and are longer than the dot
DotSegments == {".gitignore", ".git", ".turbo", ".next"}

\* the files of the working directory, as paths relative to it; the
\* .gitignore files come and go with the tree chosen
TreeFiles ==
    << <<"src", "a.js">>,
       <<"node_modules", "m.js">>,
       <<"dist", "d.js">>,
       <<"pkg", "node_modules", "p.js">> >>

ROOT_GITIGNORE == <<".gitignore">>
DIST_GITIGNORE == <<"dist", ".gitignore">>

FileSizes == {4096, MAX_FILE_SIZE_BYTES, MAX_FILE_SIZE_BYTES + 1}

\* a tree: the size of each file, whether dist/.gitignore exists (with the
\* directory rule `maps/`) and the rules of the root .gitignore, if any
Trees ==
    [sizes : [1..Len(TreeFiles) -> FileSizes],
     distGitignore : BOOLEAN,
     rootRules : {{}, {<<"node_modules">>}}]

\* what the user passes with --file: literal files, literal directories and
\* the glob **/*
FileInputs ==
    { << [kind |-> "glob", path |-> <<>>] >>,
      << [kind |-> "literal", path |-> <<"node_modules">>] >>,
      << [kind |-> "literal", path |-> <<"pkg">>] >>,
      << [kind |-> "literal", path |-> <<"node_modules", "m.js">>] >>,
      << [kind |-> "glob", path |-> <<>>],
         [kind |-> "literal", path |-> <<"node_modules">>] >>,
      << [kind |-> "literal", path |-> <<"src">>],
         [kind |-> "literal", path |-> <<"dist">>] >> }

isPrefix(p, q) == Len(p) <= Len(q) /\ SubSeq(q, 1, Len(p)) = p

basename(p) == p[Len(p)]

\* every file of a tree, the .gitignore files included
allFiles(tree) ==
    TreeFiles
      \o (IF tree.distGitignore THEN <<DIST_GITIGNORE>> ELSE <<>>)
      \o (IF tree.rootRules # {} THEN <<ROOT_GITIGNORE>> ELSE <<>>)

fileExists(tree, p) == \E i \in 1..Len(allFiles(tree)) : allFiles(tree)[i] = p

isDirectory(tree, p) ==
    \E i \in 1..Len(allFiles(tree)) :
        isPrefix(p, allFiles(tree)[i]) /\ Len(p) < Len(allFiles(tree)[i])

sizeOf(tree, p) ==
    IF \E i \in 1..Len(TreeFiles) : TreeFiles[i] = p
    THEN tree.sizes[CHOOSE i \in 1..Len(TreeFiles) : TreeFiles[i] = p]
    ELSE 16

\* partitionFileInputs
partitionFileInputs(rawPaths, tree) ==
    [globPatterns |-> SelectSeq(rawPaths, LAMBDA e : e.kind = "glob"),
     literalFiles |->
        SelectSeq(rawPaths, LAMBDA e : e.kind = "literal" /\ fileExists(tree, e.path)),
     literalDirectories |->
        SelectSeq(rawPaths, LAMBDA e : e.kind = "literal" /\ isDirectory(tree, e.path))]

\* includesDotfileSegment, for the pattern made from one input
includesDotfileSegment(entry) ==
    \E i \in 1..Len(entry.path) : entry.path[i] \in DotSegments

\* the .gitignore files of the tree: directory and directory rules
gitignoreSets(tree) ==
    (IF tree.rootRules # {} THEN {[dir |-> <<>>, patterns |-> tree.rootRules]} ELSE {})
    \cup (IF tree.distGitignore
          THEN {[dir |-> <<"dist">>, patterns |-> {<<"maps">>}]} ELSE {})

\* isGitignored: a directory rule matches the directory and all below it
isGitignored(filePath, sets) ==
    \E set \in sets :
        /\ isPrefix(set.dir, filePath)
        /\ \E rule \in set.patterns :
              isPrefix(rule, SubSeq(filePath, Len(set.dir) + 1, Len(filePath)))

\* expandWithNativeGlob: the files the patterns match, without the
\* gitignored ones and, unless a pattern names a dot segment, without dotfiles
expandWithNativeGlob(partitioned, tree) ==
    LET patterns == partitioned.globPatterns \o partitioned.literalFiles
                      \o partitioned.literalDirectories
        matched(p) ==
            \E i \in 1..Len(patterns) :
                \/ patterns[i].kind = "glob"
                \/ patterns[i].path = p
                \/ isPrefix(patterns[i].path, p) /\ Len(patterns[i].path) < Len(p)
        dotfileOptIn == \E i \in 1..Len(patterns) : includesDotfileSegment(patterns[i])
        keep(p) ==
            /\ matched(p)
            /\ ~isGitignored(p, gitignoreSets(tree))
            /\ dotfileOptIn \/ basename(p) \notin DotSegments
    IN  SelectSeq(allFiles(tree), keep)

\* buildIgnoredWhitelist: the default-ignored directories above a candidate
\* that hold a .gitignore file
buildIgnoredWhitelist(candidatePaths, tree) ==
    { dir \in UNION { { SubSeq(candidatePaths[c], 1, i) :
                          i \in 1..(Len(candidatePaths[c]) - 1) } :
                      c \in 1..Len(candidatePaths) } :
        /\ basename(dir) \in DEFAULT_IGNORED_DIRS
        /\ fileExists(tree, Append(dir, ".gitignore")) }

\* findIgnoredAncestor: None, or the first default-ignored segment of the
\* path whose directory is not whitelisted
RECURSIVE firstIgnoredPart(_, _, _)
firstIgnoredPart(filePath, idx, ignoredWhitelist) ==
    IF idx > Len(filePath) THEN None
    ELSE IF filePath[idx] \in DEFAULT_IGNORED_DIRS
            /\ SubSeq(filePath, 1, idx) \notin ignoredWhitelist
    THEN filePath[idx]
    ELSE firstIgnoredPart(filePath, idx + 1, ignoredWhitelist)

\* the whitelist is not consulted
findIgnoredAncestorAlways(filePath, allowedPaths, ignoredWhitelist) ==
    IF \E allowed \in allowedPaths : isPrefix(allowed, filePath) THEN None
    ELSE firstIgnoredPart(filePath, 1, {})

findIgnoredAncestor(filePath, allowedPaths, ignoredWhitelist) ==
    IF \E allowed \in allowedPaths : isPrefix(allowed, filePath) THEN None
    ELSE firstIgnoredPart(filePath, 1, ignoredWhitelist)

\* the filter of lines 32-44 over the candidates from position i on:
\* the lines logged, with ignoredLog the keys logged so far
RECURSIVE skipLines(_, _, _, _, _)
skipLines(candidatePaths, i, allowedPaths, ignoredWhitelist, ignoredLog) ==
    IF i > Len(candidatePaths) THEN <<>>
    ELSE LET ignoredDir == findIgnoredAncestor(candidatePaths[i], allowedPaths,
                                               ignoredWhitelist)
             key == <<ignoredDir, candidatePaths[i]>>
         IN  IF ignoredDir = None \/ key \in ignoredLog
             THEN skipLines(candidatePaths, i + 1, allowedPaths, ignoredWhitelist,
                            ignoredLog)
             ELSE <<[file |-> candidatePaths[i], matches |-> ignoredDir]>>
                    \o skipLines(candidatePaths, i + 1, allowedPaths,
                                 ignoredWhitelist, ignoredLog \cup {key})

\* a size over the limit is accepted
oversizedNever(size, maxFileSizeBytes) == FALSE

\* maxFileSizeBytes && typeof stats.size === 'number' && stats.size > maxFileSizeBytes
isOversized(size, maxFileSizeBytes) ==
    maxFileSizeBytes # 0 /\ size > maxFileSizeBytes

\* readFiles(filePaths, { maxFileSizeBytes }) on the native file system
readFiles(filePaths, tree, maxFileSizeBytes) ==
    LET partitioned == partitionFileInputs(filePaths, tree)
        candidatePaths == expandWithNativeGlob(partitioned, tree)
        allowedPaths ==
            { partitioned.literalDirectories[i].path :
                i \in { j \in 1..Len(partitioned.literalDirectories) :
                          basename(partitioned.literalDirectories[j].path)
                             \in DEFAULT_IGNORED_DIRS } }
            \cup { partitioned.literalFiles[i].path :
                     i \in 1..Len(partitioned.literalFiles) }
        ignoredWhitelist == buildIgnoredWhitelist(candidatePaths, tree)
        passes(p) == findIgnoredAncestor(p, allowedPaths, ignoredWhitelist) = None
        filteredCandidates == SelectSeq(candidatePaths, passes)
        logs == skipLines(candidatePaths, 1, allowedPaths, ignoredWhitelist, {})
        over(p) == isOversized(sizeOf(tree, p), maxFileSizeBytes)
        under(p) == ~over(p)
        tooBig == SelectSeq(filteredCandidates, over)
        accepted == SelectSeq(filteredCandidates, under)
        base == [candidates |-> candidatePaths, allowed |-> allowedPaths,
                 whitelist |-> ignoredWhitelist, logs |-> logs]
    IN  IF Len(filteredCandidates) = 0
        THEN [outcome |-> "FileValidationError: no files matched",
              files |-> <<>>, read |-> <<>>, oversized |-> <<>>, call |-> base]
        ELSE IF Len(tooBig) > 0
        THEN [outcome |-> "FileValidationError: files exceed the limit",
              files |-> <<>>, read |-> <<>>,
              oversized |-> [i \in 1..Len(tooBig) |->
                               [path |-> tooBig[i], size |-> sizeOf(tree, tooBig[i])]],
              call |-> base]
        ELSE [outcome |-> "files", files |-> accepted, read |-> accepted,
              oversized |-> <<>>, call |-> base]

ReadFiles ==
    /\ pure.op = "none"
    /\ \E filePaths \in FileInputs, tree \in Trees :
          pure' = [op |-> "readFiles", filePaths |-> filePaths, tree |-> tree,
                   limit |-> MAX_FILE_SIZE_BYTES,
                   result |-> readFiles(filePaths, tree, MAX_FILE_SIZE_BYTES)]
    /\ UNCHANGED notPure

\* the candidates that the default-ignore filter let through
letThrough ==
    SelectSeq(pure.result.call.candidates,
              LAMBDA p : \A i \in 1..Len(pure.result.call.logs) :
                            pure.result.call.logs[i].file # p)

overLimit(p) == sizeOf(pure.tree, p) > pure.limit

\* C25: a file is accepted exactly when its size is at most the limit; if
\* any matched file is over the limit the call fails with one error that
\* names every oversized file with its size, and no content is read
C25_OversizedFilesRejectedTogether ==
    pure.op = "readFiles" =>
        LET r == pure.result
            anyOver == \E i \in 1..Len(letThrough) : overLimit(letThrough[i])
        IN  /\ anyOver <=> r.outcome = "FileValidationError: files exceed the limit"
            /\ anyOver =>
                  /\ r.read = <<>>
                  /\ r.files = <<>>
                  /\ r.oversized =
                        LET big == SelectSeq(letThrough, overLimit)
                        IN  [i \in 1..Len(big) |->
                               [path |-> big[i], size |-> sizeOf(pure.tree, big[i])]]
            /\ (~anyOver /\ Len(letThrough) > 0) =>
                  /\ r.outcome = "files"
                  /\ r.files = letThrough
                  /\ r.read = letThrough

\* two files matched, one of exactly 1 MB and one a byte larger: the call
\* failed naming the larger one and read nothing
C25_Witness ==
    /\ pure.op = "readFiles"
    /\ pure.result.outcome = "FileValidationError: files exceed the limit"
    /\ Len(pure.result.oversized) = 1
    /\ pure.result.oversized[1].size = MAX_FILE_SIZE_BYTES + 1
    /\ \E i \in 1..Len(letThrough) :
          sizeOf(pure.tree, letThrough[i]) = MAX_FILE_SIZE_BYTES
    /\ pure.result.read = <<>>

\* the paths the user passed as literals that override the default ignore:
\* default-ignored directories and files
requestedPaths ==
    { pure.filePaths[i].path :
        i \in { j \in 1..Len(pure.filePaths) :
                  /\ pure.filePaths[j].kind = "literal"
                  /\ \/ fileExists(pure.tree, pure.filePaths[j].path)
                     \/ basename(pure.filePaths[j].path) \in DEFAULT_IGNORED_DIRS } }

underRequested(p) == \E r \in requestedPaths : isPrefix(r, p)

\* the default-ignored directories above a path
ignoredDirsAbove(p) ==
    { SubSeq(p, 1, i) : i \in { j \in 1..(Len(p) - 1) : p[j] \in DEFAULT_IGNORED_DIRS } }

holdsGitignore(dir) == fileExists(pure.tree, Append(dir, ".gitignore"))

wasSkipped(p) ==
    \E i \in 1..Len(pure.result.call.logs) : pure.result.call.logs[i].file = p

oneLinePerSkippedPath ==
    \A i, j \in 1..Len(pure.result.call.logs) :
        pure.result.call.logs[i].file = pure.result.call.logs[j].file => i = j

InitFiles == Init

NextFiles ==
    \/ ReadFiles
    \/ CallReturns

SpecFiles == InitFiles /\ [][NextFiles]_vars

\* ---------------------------------------------------------------------
\* The client factory override (ORACLE_CLIENT_FACTORY) and the fenced file
\* sections of the markdown bundle
\* ---------------------------------------------------------------------

BUILTIN_FACTORY == "builtin"

NO_FACTORY == "null"

\* what ORACLE_CLIENT_FACTORY holds: nothing, the empty string, a path
Overrides == {"unset", "", "./factory.cjs"}

ExportKinds == {"function", "object", "absent"}

\* what require(resolved) does: it throws, or it yields the exports of the
\* module: the exports themselves are a function, an object or null, and
\* the members default and createClientFactory are functions, other values
\* or absent
ModuleOutcomes ==
    {[throws |-> TRUE]}
        \cup [throws : {FALSE}, self : {"function", "object", "null"},
              default : ExportKinds, createClientFactory : ExportKinds]

\* moduleExports?.member is undefined for null exports
memberOf(moduleExports, member) ==
    IF moduleExports.self = "null" THEN "absent" ELSE moduleExports[member]

\* a loader that never warns
loadCustomClientFactorySilently(override, module) ==
    [factory |-> NO_FACTORY, warnings |-> 0]

loadCustomClientFactory(override, module) ==
    IF override \in {"unset", ""}
    THEN [factory |-> NO_FACTORY, warnings |-> 0]
    ELSE IF module.throws
    THEN [factory |-> NO_FACTORY, warnings |-> 1]
    ELSE LET factory ==
                 IF module.self = "function" THEN "moduleExports"
                 ELSE IF memberOf(module, "default") = "function" THEN "default"
                 ELSE IF memberOf(module, "createClientFactory") = "function"
                 THEN "createClientFactory"
                 ELSE NO_FACTORY
         IN  IF factory # NO_FACTORY
             THEN [factory |-> factory, warnings |-> 0]
             ELSE [factory |-> NO_FACTORY, warnings |-> 1]

\* createDefaultClientFactory, lines 6-9: the custom factory when one was
\* loaded, else the built-in one
createDefaultClientFactoryFrom(CUSTOM_CLIENT_FACTORY) ==
    IF CUSTOM_CLIENT_FACTORY # NO_FACTORY
    THEN CUSTOM_CLIENT_FACTORY
    ELSE BUILTIN_FACTORY

MaxFactoryCalls == 2

\* the client module is loaded, which runs loadCustomClientFactory once,
\* and createDefaultClientFactory is called some times
LoadClientModule ==
    /\ pure.op = "none"
    /\ \E override \in Overrides, module \in ModuleOutcomes,
          calls \in 1..MaxFactoryCalls :
          LET loaded == loadCustomClientFactory(override, module)
          IN  pure' = [op |-> "clientModule", override |-> override,
                       module |-> module, calls |-> calls,
                       threw |-> FALSE,
                       warnings |-> loaded.warnings,
                       factories |->
                           [i \in 1..calls |->
                               createDefaultClientFactoryFrom(loaded.factory)]]
    /\ UNCHANGED notPure

usableExport(module) ==
    /\ ~module.throws
    /\ \/ module.self = "function"
       \/ memberOf(module, "default") = "function"
       \/ memberOf(module, "createClientFactory") = "function"

MaxContentLen == 5

BACKTICK == "tick"

NEWLINE == "newline"

ContentChars == {BACKTICK, "a", NEWLINE}

Contents == UNION {[1..n -> ContentChars] : n \in 0..MaxContentLen}

DisplayPaths == {"a.js", "notes"}

\* content.matchAll of one or more backticks: the lengths of the maximal runs of
\* backticks, from left to right
RECURSIVE backtickRuns(_, _, _)
backtickRuns(content, i, run) ==
    IF i > Len(content)
    THEN IF run > 0 THEN <<run>> ELSE <<>>
    ELSE IF content[i] = BACKTICK
    THEN backtickRuns(content, i + 1, run + 1)
    ELSE IF run > 0
    THEN <<run>> \o backtickRuns(content, i + 1, 0)
    ELSE backtickRuns(content, i + 1, 0)

RECURSIVE reduceMax(_, _)
reduceMax(matches, max) ==
    IF matches = <<>> THEN max
    ELSE reduceMax(Tail(matches), IF Head(matches) > max THEN Head(matches) ELSE max)

\* a fence of three backticks whatever the content
pickFenceOfThree(content) == 3

\* the number of backticks of the fence
pickFence(content) ==
    LET maxTicks == reduceMax(backtickRuns(content, 1, 0), 0)
    IN  IF maxTicks + 1 > 3 THEN maxTicks + 1 ELSE 3

detectFenceLanguage(displayPath) ==
    IF displayPath = "a.js" THEN "js" ELSE "null"

\* content.replace of the trailing whitespace by nothing
RECURSIVE trimEnd(_)
trimEnd(content) ==
    IF content # <<>> /\ content[Len(content)] = NEWLINE
    THEN trimEnd(SubSeq(content, 1, Len(content) - 1))
    ELSE content

\* the lines of the section: header, opening fence (backticks and
\* language), the content without trailing whitespace, closing fence
formatFileSection(displayPath, content) ==
    LET fence == pickFence(content)
    IN  [header |-> displayPath,
         fenceOpen |-> [ticks |-> fence, lang |-> detectFenceLanguage(displayPath)],
         normalized |-> trimEnd(content),
         fence |-> fence]

FormatFileSection ==
    /\ pure.op = "none"
    /\ \E displayPath \in DisplayPaths, content \in Contents :
          pure' = [op |-> "formatFileSection", displayPath |-> displayPath,
                   content |-> content,
                   section |-> formatFileSection(displayPath, content)]
    /\ UNCHANGED notPure

\* the longest run of consecutive backticks, found position by position
runAt(content, i, n) ==
    /\ i + n - 1 <= Len(content)
    /\ \A j \in i..(i + n - 1) : content[j] = BACKTICK

longestRun(content) ==
    CHOOSE n \in 0..Len(content) :
        /\ n > 0 => \E i \in 1..Len(content) : runAt(content, i, n)
        /\ \A m \in (n + 1)..Len(content) :
              ~\E i \in 1..Len(content) : runAt(content, i, m)

\* C28: the fence is one longer than the longest run of consecutive
\* backticks in the content and never shorter than 3, so the opening and
\* the closing fence are longer than any backtick run inside the content
C28_FenceLongerThanAnyBacktickRun ==
    pure.op = "formatFileSection" =>
        LET longest == longestRun(pure.content)
            expected == IF longest + 1 > 3 THEN longest + 1 ELSE 3
        IN  /\ pure.section.fence = expected
            /\ pure.section.fenceOpen.ticks = expected
            /\ pure.section.fence > longestRun(pure.section.normalized)
            /\ pure.section.fenceOpen.ticks > longestRun(pure.section.normalized)

\* a run of four backticks and a trailing newline: a fence of five
C28_Witness ==
    /\ pure.op = "formatFileSection"
    /\ pure.content = <<BACKTICK, BACKTICK, BACKTICK, BACKTICK, NEWLINE>>
    /\ pure.section.fence = 5
    /\ pure.section.fenceOpen = [ticks |-> 5, lang |-> "js"]
    /\ pure.section.normalized = <<BACKTICK, BACKTICK, BACKTICK, BACKTICK>>

InitBundle == Init

NextBundle ==
    \/ LoadClientModule
    \/ FormatFileSection
    \/ CallReturns

SpecBundle == InitBundle /\ [][NextBundle]_vars

\* ---------------------------------------------------------------------
\* The frame of updateSessionMetadata
\* ---------------------------------------------------------------------

\* C29: updateSession changes exactly the fields named in the partial
\* update: every other field of the stored metadata (status, completedAt,
\* errorMessage and the models list included) has the same value in
\* meta.json after the update as before
C29_UpdateChangesOnlyNamedFields ==
    [][\A id \in DOMAIN metaFile :
          \A updates \in LifecycleUpdates(metaFile[id], now) :
              Update(id, updates) =>
                  /\ DOMAIN metaFile'[id] = DOMAIN metaFile[id] \cup DOMAIN updates
                  /\ \A f \in DOMAIN updates : metaFile'[id][f] = updates[f]
                  /\ \A f \in DOMAIN metaFile[id] \ DOMAIN updates :
                        metaFile'[id][f] = metaFile[id][f]]_vars

\* ---------------------------------------------------------------------
\* The consult tool: from its model and models arguments to the executions
\* of the multi-model runner
\* ---------------------------------------------------------------------

MaxConsultModels == 1

ConsultModelNames == {"gpt-5.1-pro", "gemini-3-pro"}

\* the singular model: absent or empty (""), blank, or a name
ConsultModelArgs == ConsultModelNames \cup {"", " "}

\* the models argument: absent or empty (<<>>), or a list of entries
ConsultModelLists ==
    UNION {[1..n -> ConsultModelNames \cup {""}] : n \in 0..MaxConsultModels}

\* Boolean(entry?.trim())
isNamed(entry) == entry \notin {"", " "}

\* lines 6-8: [model, ...models].filter(...) for a list with entries, else
\* the models argument as it is
mergedModels(model, models) ==
    IF models # <<>>
    THEN SelectSeq(<<model>> \o models, isNamed)
    ELSE models

\* the option resolution shared with the command line, as far as the models
\* list goes: the list is handed on to the run options
resolveRunOptionsFromConfig(model, models) ==
    [runOptions |-> [model |-> model, models |-> models]]

mapConsultToRunOptions(model, models) ==
    resolveRunOptionsFromConfig(model, mergedModels(model, models))

\* the consult tool is called with a model and a models list and starts a
\* multi-model run for the list of its run options
Consult(model, models) ==
    LET result == mapConsultToRunOptions(model, models)
    IN  /\ Len(result.runOptions.models) > 1
        /\ InitializeSession(result.runOptions.models)

\* executions that are under way together
concurrent(i, j) ==
    /\ i # j
    /\ execs[i].pc # "settled"
    /\ execs[j].pc # "settled"

\* C30: the models list that the consult tool builds from a singular model
\* and a models list holds each model at most once, so no two executions of
\* a multi-model run that are under way together write the same model
\* record and the same model log
C30_ConsultModelsAreDistinct ==
    runner.phase # "none" =>
        /\ \A i, j \in DOMAIN runner.models :
              runner.models[i] = runner.models[j] => i = j
        /\ \A i, j \in DOMAIN execs :
              concurrent(i, j) => execs[i].model # execs[j].model

InitConsult == InitRunner

NextConsult ==
    \/ \E model \in ConsultModelArgs, models \in ConsultModelLists :
          Consult(model, models)
    \/ \E i \in 1..(MaxConsultModels + 1) : StartModelExecution(i)
    \/ \E i \in 1..(MaxConsultModels + 1) : MarkRunning(i)
    \/ \E i \in 1..(MaxConsultModels + 1), o \in OracleOutcomes : RunOracleSettles(i, o)
    \/ \E i \in 1..(MaxConsultModels + 1) : MarkCompleted(i)
    \/ \E i \in 1..(MaxConsultModels + 1) : MarkError(i)
    \/ \E i \in 1..(MaxConsultModels + 1) : EndStream(i)
    \/ Aggregate

SpecConsult == InitConsult /\ [][NextConsult]_vars

\* ---------------------------------------------------------------------
\* The sign of a normalised expiration
\* ---------------------------------------------------------------------

\* C40: the normalised expiration of a cookie is either no expiration or a
\* positive whole number of Unix seconds; no input value, in particular no
\* value given in Unix milliseconds, gives zero or a negative expiration
C40_ExpirationIsNoneOrPositive ==
    pure.op = "normalizeExpiration" =>
        IF pure.result = UNDEFINED THEN TRUE ELSE greater(pure.result, ZERO)

\* ---------------------------------------------------------------------
\* The heartbeat after its stop function was called
\* ---------------------------------------------------------------------

\* C36: after the stop function of a heartbeat has been called the log
\* function is never invoked again, also when a message callback was
\* pending at the moment of the stop and settles afterwards; a further call
\* of stop changes nothing
C36_NoLogAfterStop ==
    /\ [][heartbeat.stopCalled => heartbeat'.logs = heartbeat.logs]_vars
    /\ [][(heartbeat.stopCalled /\ heartbeat'.stopCalls # heartbeat.stopCalls)
            => heartbeat' = [heartbeat EXCEPT !.stopCalls = @ + 1]]_vars
    /\ [](heartbeat.stopCalled => heartbeat.stopped /\ heartbeat.timer = "cleared")

\* the one message callback was pending when stop was called, it settled
\* with a message that was not logged, and stop was called a second time
C36_Witness ==
    /\ heartbeat.stopCalls = 2
    /\ ~heartbeat.sawInactive
    /\ heartbeat.invocations = 1
    /\ heartbeat.inFlight = 0
    /\ heartbeat.lastOutcome = "message"
    /\ heartbeat.logs = 0

\* ---------------------------------------------------------------------
\* The result event of a remote run
\* ---------------------------------------------------------------------

\* every line the host sent, the last one also when it has no newline
sentLines == linesOf(bridge.received \o <<NL>>, 1, <<>>)

\* C35: a result event that the remote host sent is never lost: however the
\* bytes of the response are split into chunks, and whether or not the last
\* line ends with a newline, a stream with a well-formed result line, no
\* error event and no unparseable line makes the call resolve with that
\* result
C35_ResultEventNeverLost ==
    (bridge.pc = "ended" /\ bridge.status = 200) =>
        LET lines == sentLines
            results == {k \in DOMAIN lines :
                          /\ ~isFailure(lines[k])
                          /\ lines[k][1] = "result"
                          /\ lines[k][2] # "null"}
        IN  ((\A k \in DOMAIN lines : ~isFailure(lines[k])) /\ results # {})
                => /\ bridge.outcome # Null
                   /\ bridge.outcome.ok
                   /\ \E k \in results : bridge.outcome.value = lines[k][2]

\* ---------------------------------------------------------------------
\* Reattachment: the choice of the debugging target
\* ---------------------------------------------------------------------

MaxTargets == 2

\* the stored tab URL, a URL that extends it, one that is a prefix of it,
\* another URL, and no URL at all
TAB_URL == <<"u", "/">>
LONGER_URL == <<"u", "/", "c">>
SHORTER_URL == <<"u">>
OTHER_URL == <<"v">>
NO_URL == <<>>

TargetInfos ==
    [targetId : {"t1", "t2"}, type : {"page", "service_worker"},
     url : {LONGER_URL, SHORTER_URL, OTHER_URL, NO_URL}]

TargetLists == UNION {[1..n -> TargetInfos] : n \in 0..MaxTargets}

\* the stored runtime metadata: "" and <<>> stand for a missing field
TargetRuntimes == [chromeTargetId : {"", "t1"}, tabUrl : {NO_URL, TAB_URL}]

\* targets.find(test): the index of the first target that passes, 0 for none
find(targets, test(_)) ==
    IF \E i \in DOMAIN targets : test(targets[i])
    THEN CHOOSE i \in DOMAIN targets :
            test(targets[i]) /\ \A j \in 1..(i - 1) : ~test(targets[j])
    ELSE 0

\* targets.find((t) => t.type === 'page') ?? targets[0]
lastChoice(targets) ==
    LET isPage(t) == t.type = "page"
    IN  IF find(targets, isPage) # 0 THEN find(targets, isPage) ELSE 1

\* the index of the target that pickTarget returns, 0 for undefined
pickTarget(targets, runtime) ==
    LET hasId(t) == t.targetId = runtime.chromeTargetId
        extends(t) == t.url # NO_URL /\ startsWith(t.url, runtime.tabUrl)
        isShorter(t) == startsWith(runtime.tabUrl, t.url)
        byUrl == IF find(targets, extends) # 0 THEN find(targets, extends)
                 ELSE find(targets, isShorter)
    IN  IF Len(targets) = 0 THEN 0
        ELSE IF runtime.chromeTargetId # "" /\ find(targets, hasId) # 0
        THEN find(targets, hasId)
        ELSE IF runtime.tabUrl # NO_URL /\ byUrl # 0 THEN byUrl
        ELSE lastChoice(targets)

PickTarget ==
    /\ pure.op = "none"
    /\ \E targets \in TargetLists, runtime \in TargetRuntimes :
          pure' = [op |-> "pickTarget", targets |-> targets, runtime |-> runtime,
                   picked |-> pickTarget(targets, runtime)]
    /\ UNCHANGED notPure

\* C37: pickTarget returns the target whose id equals the stored target id;
\* otherwise a target whose URL extends the stored tab URL or is a prefix of
\* it; otherwise the first target of type page; a target of lower preference
\* is never returned while one of higher preference is in the list; an
\* empty list, or a list with none of these, yields no target
C37_PickTargetPreference ==
    pure.op = "pickTarget" =>
        LET targets == pure.targets
            runtime == pure.runtime
            byId == {i \in DOMAIN targets :
                        /\ runtime.chromeTargetId # ""
                        /\ targets[i].targetId = runtime.chromeTargetId}
            byUrl == {i \in DOMAIN targets :
                        /\ runtime.tabUrl # NO_URL
                        /\ \/ startsWith(targets[i].url, runtime.tabUrl)
                           \/ startsWith(runtime.tabUrl, targets[i].url)}
            pages == {i \in DOMAIN targets : targets[i].type = "page"}
        IN  /\ Len(targets) = 0 => pure.picked = 0
            /\ byId # {} => pure.picked \in byId
            /\ (byId = {} /\ byUrl # {}) => pure.picked \in byUrl
            /\ (byId = {} /\ byUrl = {} /\ pages # {}) =>
                  /\ pure.picked \in pages
                  /\ \A i \in pages : pure.picked <= i
            /\ (byId = {} /\ byUrl = {} /\ pages = {}) => pure.picked = 0

\* ---------------------------------------------------------------------
\* Recovery in a fresh Chrome: resumeBrowserSessionViaNewChrome
\* ---------------------------------------------------------------------

\* the default page and a project page of the chat application
CHATGPT_URL == <<"o", "/">>
PROJECT_URL == <<"o", "/", "g", "/", "p">>

\* a stored tab URL on a conversation
CONVERSATION_TAB_URL == <<"o", "/", "c", "/", "i", "d">>

\* String.prototype.includes
includes(text, needle) ==
    \E i \in 1..(Len(text) - Len(needle) + 1) :
        SubSeq(text, i, i + Len(needle) - 1) = needle

\* new URL(baseUrl).origin: the text before the first slash
RECURSIVE originOf(_)
originOf(url) ==
    IF url = <<>> \/ Head(url) = "/" THEN <<>>
    ELSE <<Head(url)>> \o originOf(Tail(url))

\* Null stands for null
buildConversationUrl(runtime, baseUrl) ==
    IF runtime.tabUrl # <<>>
    THEN IF includes(runtime.tabUrl, <<"/", "c", "/">>) THEN runtime.tabUrl ELSE Null
    ELSE IF runtime.conversationId = <<>> THEN Null
    ELSE originOf(baseUrl) \o <<"/", "c", "/">> \o runtime.conversationId

\* the stored runtime metadata of the session that is recovered
RecoveryRuntimes ==
    [tabUrl : {<<>>, CHATGPT_URL, CONVERSATION_TAB_URL},
     conversationId : {<<>>, <<"i", "d">>}]

\* the resolved browser configuration
RecoveryConfigs ==
    [manualLogin : BOOLEAN, keepBrowser : BOOLEAN, cookieSync : BOOLEAN,
     url : {CHATGPT_URL, PROJECT_URL}]

\* the awaited steps of the path in their order; each can throw
RecoverySteps ==
    <<"launchChrome", "connectToChrome", "syncCookies", "navigateToChatGPT",
      "ensureNotBlocked", "ensureLoggedIn", "ensurePromptReady",
      "openConversation", "waitForResponse", "captureMarkdown">>

stepIndex(step) == CHOOSE i \in DOMAIN RecoverySteps : RecoverySteps[i] = step

\* the steps the path runs for a configuration: the cookie sync is left out
\* with manual login or with cookie sync off
stepsRun(config) ==
    SelectSeq(RecoverySteps,
              LAMBDA step : step = "syncCookies"
                                => (~config.manualLogin /\ config.cookieSync))

\* the step at which the run throws: the first step that is run and fails
firstFailure(config, failing) ==
    LET run == stepsRun(config)
        bad == {i \in DOMAIN run : run[i] \in failing}
    IN  IF bad = {} THEN "none"
        ELSE run[CHOOSE i \in bad : \A j \in bad : i <= j]

reached(step, failure) ==
    failure = "none" \/ stepIndex(step) <= stepIndex(failure)

passed(step, failure) ==
    failure = "none" \/ stepIndex(step) < stepIndex(failure)

\* lines 243-250: kill and rm run only after the answer was captured
cleanupRuns(config, failure) ==
    ~config.keepBrowser /\ ~config.manualLogin /\ failure = "none"

\* the whole path: what is left of Chrome and of the profile directory, the
\* way the conversation was reopened, and how the call ends
resumeBrowserSessionViaNewChrome(runtime, config, failing) ==
    LET failure == firstFailure(config, failing)
        conversationUrl == buildConversationUrl(runtime, config.url)
        cleaned == cleanupRuns(config, failure)
    IN  [failure |-> failure,
         userDataDir |-> IF config.manualLogin THEN "persistent"
                         ELSE IF cleaned THEN "removed" ELSE "temporary",
         chrome |-> IF ~passed("launchChrome", failure) THEN "none"
                    ELSE IF cleaned THEN "killed" ELSE "running",
         conversationUrl |-> conversationUrl,
         reopenedBy |-> IF ~reached("openConversation", failure) THEN "none"
                        ELSE IF conversationUrl # Null THEN "navigation"
                        ELSE "sidebar",
         outcome |-> IF failure = "none" THEN "answer" ELSE "thrown"]

\* the steps that fail in a run: none or one of them
FailingSteps == {{}} \cup {{RecoverySteps[i]} : i \in DOMAIN RecoverySteps}

ResumeBrowserSessionViaNewChrome ==
    /\ pure.op = "none"
    /\ \E runtime \in RecoveryRuntimes, config \in RecoveryConfigs,
          failing \in FailingSteps :
          pure' = [op |-> "recover", runtime |-> runtime, config |-> config,
                   failing |-> failing,
                   result |-> resumeBrowserSessionViaNewChrome(runtime, config, failing)]
    /\ UNCHANGED notPure

\* C32: with manual login off and keep-browser off, the Chrome process that
\* was launched is killed and its temporary profile directory is removed on
\* every way the path ends, whether the answer was captured or a step after
\* the launch failed
C32_RecoveryAlwaysCleansUp ==
    (/\ pure.op = "recover"
     /\ ~pure.config.manualLogin
     /\ ~pure.config.keepBrowser
     /\ pure.result.chrome # "none")
        => /\ pure.result.chrome = "killed"
           /\ pure.result.userDataDir = "removed"

\* C33: the sidebar search is used only when no conversation URL can be
\* derived from the stored runtime metadata: whenever the metadata holds a
\* tab URL on a conversation or a conversation id, the engine navigates to
\* that conversation's URL and does not search the sidebar
C33_SidebarOnlyWithoutConversationUrl ==
    (/\ pure.op = "recover"
     /\ pure.result.reopenedBy # "none"
     /\ \/ includes(pure.runtime.tabUrl, <<"/", "c", "/">>)
        \/ pure.runtime.conversationId # <<>>)
        => pure.result.reopenedBy = "navigation"

\* ---------------------------------------------------------------------
\* Reattachment: the wait for the page location to change after the click
\* ---------------------------------------------------------------------

LOCATION_TIMEOUT_MS == 15000

LOCATION_POLL_MS == 200

\* when the location changes, in ms after the wait began: never (0), before
\* the wait began (-1), early, just before and just after the budget ends
LocationChangeTimes == {0, -1, 100, 14900, 15100}

\* location.href at time t
hrefAt(t, changeAt) ==
    IF changeAt # 0 /\ t >= changeAt THEN "new" ELSE "old"

\* the while loop: t is Date.now() - start
RECURSIVE locationLoop(_, _, _, _)
locationLoop(t, lastHref, changeAt, timeoutMs) ==
    IF ~(t < timeoutMs)
    THEN [outcome |-> "returned", sawChange |-> FALSE, at |-> t]
    ELSE LET href == hrefAt(t, changeAt)
         IN  IF lastHref # "" /\ href # lastHref
             THEN [outcome |-> "returned", sawChange |-> TRUE, at |-> t]
             ELSE locationLoop(t + LOCATION_POLL_MS, href, changeAt, timeoutMs)

waitForLocationChange(changeAt, timeoutMs) ==
    locationLoop(0, "", changeAt, timeoutMs)

\* ensureConversationOpen: the page is on a conversation already, or the
\* sidebar search opens one and the location is waited for
ensureConversationOpen(onConversation, opened, changeAt) ==
    IF onConversation THEN [outcome |-> "returned", searched |-> FALSE]
    ELSE IF ~opened
    THEN [outcome |-> "thrown", searched |-> TRUE,
          error |-> "Unable to locate prior ChatGPT conversation in sidebar."]
    ELSE [outcome |-> waitForLocationChange(changeAt, LOCATION_TIMEOUT_MS).outcome,
          searched |-> TRUE,
          wait |-> waitForLocationChange(changeAt, LOCATION_TIMEOUT_MS)]

EnsureConversationOpen ==
    /\ pure.op = "none"
    /\ \E onConversation \in BOOLEAN, opened \in BOOLEAN,
          changeAt \in LocationChangeTimes :
          pure' = [op |-> "ensureConversationOpen",
                   onConversation |-> onConversation, opened |-> opened,
                   changeAt |-> changeAt,
                   result |-> ensureConversationOpen(onConversation, opened, changeAt)]
    /\ UNCHANGED notPure

\* C34: the wait for the location to change after the click is bounded and
\* fails with a timeout error when the location has not changed within its
\* 15 seconds, so a click that never navigated does not count as a
\* conversation that was reopened
C34_LocationWaitFailsOnTimeout ==
    (/\ pure.op = "ensureConversationOpen"
     /\ ~pure.onConversation
     /\ pure.opened
     /\ pure.changeAt = 0 \/ pure.changeAt > LOCATION_TIMEOUT_MS)
        => pure.result.outcome = "thrown"

\* ---------------------------------------------------------------------
\* The sidebar search: openConversationFromSidebar
\* ---------------------------------------------------------------------

MaxCandidates == 2

\* what a candidate element offers: conv - its href or data-conversation-id
\* names the stored conversation; text - its text holds the prompt preview;
\* href - its href holds /c/; testId - its test id holds conversation or
\* history
CandidateShapes ==
    { [conv |-> FALSE, text |-> FALSE, href |-> FALSE, testId |-> FALSE],
      [conv |-> TRUE, text |-> FALSE, href |-> FALSE, testId |-> FALSE],
      [conv |-> TRUE, text |-> FALSE, href |-> TRUE, testId |-> FALSE],
      [conv |-> FALSE, text |-> TRUE, href |-> FALSE, testId |-> FALSE],
      [conv |-> FALSE, text |-> FALSE, href |-> TRUE, testId |-> FALSE],
      [conv |-> FALSE, text |-> FALSE, href |-> FALSE, testId |-> TRUE] }

Candidates ==
    { [shape |-> s, inNav |-> n, visible |-> v] :
        s \in CandidateShapes, n \in BOOLEAN, v \in BOOLEAN }

CandidateLists == UNION {[1..n -> Candidates] : n \in 0..MaxCandidates}

SidebarOptions == [conversationId : BOOLEAN, promptPreview : BOOLEAN]

\* candidates.filter(test), as the list of the positions kept
positions(candidates, test(_)) ==
    SelectSeq([i \in DOMAIN candidates |-> i], LAMBDA i : test(candidates[i]))

\* the first item whatever its size
pickFirst(candidates, items) ==
    IF items = <<>> THEN 0 ELSE items[1]

\* items.find(visible) || items[0] || null, 0 for null
pick(candidates, items) ==
    IF \E k \in DOMAIN items : candidates[items[k]].visible
    THEN items[CHOOSE k \in DOMAIN items :
                  /\ candidates[items[k]].visible
                  /\ \A j \in 1..(k - 1) : ~candidates[items[j]].visible]
    ELSE IF items # <<>> THEN items[1]
    ELSE 0

\* pick(mainCandidates.filter(by)) || pick(navCandidates.filter(by))
pickByRegion(candidates, by(_)) ==
    LET inMain(item) == ~item.inNav /\ by(item)
        inNav(item) == item.inNav /\ by(item)
        main == pick(candidates, positions(candidates, inMain))
    IN  IF main # 0 THEN main
        ELSE pick(candidates, positions(candidates, inNav))

\* the position of the element that is clicked, 0 for none
openConversationFromSidebar(candidates, options) ==
    LET byId(item) == item.shape.conv
        byPrompt(item) == item.shape.text
        byHref(item) == item.shape.href
        byTestId(item) == item.shape.testId
        first == IF options.conversationId THEN pickByRegion(candidates, byId) ELSE 0
        second == IF first = 0 /\ options.promptPreview
                  THEN pickByRegion(candidates, byPrompt) ELSE first
        third == IF second = 0 THEN pickByRegion(candidates, byHref) ELSE second
    IN  IF third = 0 THEN pickByRegion(candidates, byTestId) ELSE third

OpenConversationFromSidebar ==
    /\ pure.op = "none"
    /\ \E candidates \in CandidateLists, options \in SidebarOptions :
          pure' = [op |-> "openConversationFromSidebar",
                   candidates |-> candidates, options |-> options,
                   target |-> openConversationFromSidebar(candidates, options)]
    /\ UNCHANGED notPure

\* the strategies in force for the options, in their order
strategyRank(item, options) ==
    IF options.conversationId /\ item.shape.conv THEN 1
    ELSE IF options.promptPreview /\ item.shape.text THEN 2
    ELSE IF item.shape.href THEN 3
    ELSE IF item.shape.testId THEN 4
    ELSE 5

\* candidate i is better than candidate j: by strategy, then by region, then
\* by visibility, then by position
beats(candidates, options, i, j) ==
    LET a == candidates[i]
        b == candidates[j]
        ra == strategyRank(a, options)
        rb == strategyRank(b, options)
    IN  \/ ra < rb
        \/ ra = rb /\ ~a.inNav /\ b.inNav
        \/ ra = rb /\ a.inNav = b.inNav /\ a.visible /\ ~b.visible
        \/ ra = rb /\ a.inNav = b.inNav /\ a.visible = b.visible /\ i < j

\* C38: the click target is chosen by strategy first (stored conversation
\* id, then prompt preview, then conversation-looking link, then test
\* identifier), by region second (outside the navigation region before
\* inside it) and by visibility third (the first visible candidate before
\* the invisible ones); with no candidate of any strategy nothing is clicked
C38_SidebarPickOrder ==
    pure.op = "openConversationFromSidebar" =>
        LET candidates == pure.candidates
            options == pure.options
            matching == {i \in DOMAIN candidates :
                            strategyRank(candidates[i], options) < 5}
        IN  IF matching = {} THEN pure.target = 0
            ELSE /\ pure.target \in matching
                 /\ \A j \in matching \ {pure.target} :
                       beats(candidates, options, pure.target, j)

\* an invisible link inside the navigation region that names the stored
\* conversation wins over a visible match by prompt preview outside it
C38_Witness ==
    /\ pure.op = "openConversationFromSidebar"
    /\ pure.options = [conversationId |-> TRUE, promptPreview |-> TRUE]
    /\ Len(pure.candidates) = 2
    /\ pure.candidates[1].shape.text
    /\ ~pure.candidates[1].inNav
    /\ pure.candidates[1].visible
    /\ pure.candidates[2].shape.conv
    /\ pure.candidates[2].inNav
    /\ ~pure.candidates[2].visible
    /\ pure.target = 2

\* ---------------------------------------------------------------------
\* The retrying sidebar search: openConversationFromSidebarWithRetry
\* ---------------------------------------------------------------------

\* the timeoutMs both callers pass
SIDEBAR_TIMEOUT_MS == 15000

\* how long one lookup (one Runtime.evaluate) takes, in ms
AttemptDurations == {0, 5000}

\* what one lookup ends with: a click, no match, or a throw of the
\* evaluation
AttemptOutcomes == {"opened", "notOpened", "throw"}

\* a pause of 250 ms whatever the attempt
delayAlwaysShort(attempt) == 250

\* delay(attempt < 5 ? 250 : 500)
delayAfter(attempt) == IF attempt < 5 THEN 250 ELSE 500

\* the call: start = Date.now(), attempt = 0
StartSidebarRetry ==
    /\ pure.op = "none"
    /\ pure' = [op |-> "sidebarRetry", pc |-> "while", elapsed |-> 0,
                attempt |-> 0, attempts |-> 0, lastOutcome |-> "none",
                lastDelay |-> 0, result |-> "none"]
    /\ UNCHANGED notPure

\* while (Date.now() - start < timeoutMs): a lookup starts, or return false
SidebarRetryTest ==
    /\ pure.op = "sidebarRetry"
    /\ pure.pc = "while"
    /\ pure' = IF pure.elapsed < SIDEBAR_TIMEOUT_MS
               THEN [pure EXCEPT !.pc = "lookup", !.attempts = @ + 1]
               ELSE [pure EXCEPT !.pc = "done", !.result = "false"]
    /\ UNCHANGED notPure

\* await openConversationFromSidebar(...) settles
SidebarLookupSettles(outcome, duration) ==
    /\ pure.op = "sidebarRetry"
    /\ pure.pc = "lookup"
    /\ pure' =
          IF outcome = "opened"
          THEN [pure EXCEPT !.pc = "done", !.result = "true",
                            !.elapsed = @ + duration, !.lastOutcome = outcome]
          ELSE IF outcome = "throw"
          THEN [pure EXCEPT !.pc = "done", !.result = "thrown",
                            !.elapsed = @ + duration, !.lastOutcome = outcome]
          ELSE [pure EXCEPT !.pc = "delay", !.attempt = @ + 1,
                            !.elapsed = @ + duration, !.lastOutcome = outcome]
    /\ UNCHANGED notPure

\* await delay(...) is over
SidebarDelayEnds ==
    /\ pure.op = "sidebarRetry"
    /\ pure.pc = "delay"
    /\ pure' = [pure EXCEPT !.pc = "while",
                            !.elapsed = @ + delayAfter(pure.attempt),
                            !.lastDelay = delayAfter(pure.attempt)]
    /\ UNCHANGED notPure

InitSidebarRetry == Init

NextSidebarRetry ==
    \/ StartSidebarRetry
    \/ SidebarRetryTest
    \/ \E outcome \in AttemptOutcomes, duration \in AttemptDurations :
          SidebarLookupSettles(outcome, duration)
    \/ SidebarDelayEnds

SpecSidebarRetry == InitSidebarRetry /\ [][NextSidebarRetry]_vars

\* every lookup settles and every timer fires
SpecSidebarRetryLive ==
    InitSidebarRetry /\ [][NextSidebarRetry]_vars /\ WF_vars(NextSidebarRetry)

retrying == pure.op = "sidebarRetry"

\* C39: the retrying sidebar search always terminates; it returns true as
\* soon as one lookup finds and clicks a match and returns false once 15
\* seconds have passed without one; it waits 250 ms after each of the first
\* four failed lookups and 500 ms after every later one, and starts no
\* lookup after the 15 seconds are used up
C39_SidebarRetryTerminates ==
    /\ retrying ~> (retrying /\ pure.pc = "done")
    /\ [](retrying /\ pure.pc = "done" =>
            /\ pure.result = "true" <=> pure.lastOutcome = "opened"
            /\ pure.result = "thrown" <=> pure.lastOutcome = "throw"
            /\ pure.result = "false" =>
                  /\ pure.elapsed >= SIDEBAR_TIMEOUT_MS
                  /\ pure.lastOutcome # "opened")
    /\ [][(retrying /\ pure.pc = "lookup" /\ pure'.lastOutcome = "opened"
             /\ pure'.pc # "lookup")
            => pure'.pc = "done" /\ pure'.result = "true"]_vars
    /\ [][(retrying /\ pure.pc = "delay" /\ pure'.pc = "while") =>
            pure'.elapsed - pure.elapsed =
                IF pure.attempt <= 4 THEN 250 ELSE 500]_vars
    /\ [][(retrying /\ pure'.pc = "lookup" /\ pure.pc # "lookup") =>
            pure.elapsed < SIDEBAR_TIMEOUT_MS]_vars
    /\ [][(retrying /\ pure.pc = "while" /\ pure.elapsed >= SIDEBAR_TIMEOUT_MS) =>
            pure'.pc = "done" /\ pure'.result = "false"]_vars

\* more than four lookups failed, the later pauses took 500 ms, and the
\* search returned false after the 15 seconds
C39_Witness ==
    /\ retrying
    /\ pure.pc = "done"
    /\ pure.result = "false"
    /\ pure.attempt > 5
    /\ pure.lastDelay = 500
    /\ pure.elapsed >= SIDEBAR_TIMEOUT_MS


(* ------------------------------------------------------------------ *)
(* A prune while a multi-model run is writing to its session           *)
(* ------------------------------------------------------------------ *)

\* the entry of the sessions directory that belongs to the run
RUN_SESSION == "s1"

\* how many models the run that meets a prune has
MaxRaceModels == 2

\* the session of the run as a prune finds it: meta.json is readable and its
\* createdAt is the time the run began
RunEntryStates ==
    [meta : {"ok"}, createdAt : CreatedAts, birthtimeMs : {0},
     mtimeMs : {NOW_MS - HOUR_MS}]

\* status pending or running with an execution that still writes
inFlight ==
    /\ runner.phase \in {"starting", "awaiting"}
    /\ \/ runner.phase = "starting"
       \/ \E i \in DOMAIN execs : execs[i].pc # "settled"

\* meta.json and the log of the run are in the directory of its session
hasMetaAndLog ==
    /\ RUN_SESSION \in DOMAIN sessionsDir.entries
    /\ sessionsDir.entries[RUN_SESSION].meta = "ok"

\* deleteSessionsOlderThan at any point of the run, once: fs.rm(dir, recursive)
\* takes the model records of a deleted session with it; the next
\* updateModelRunMetadata makes models/ again (ensureDir) and writes its
\* record there, nothing else
PruneDuringRun(hours, includeAll) ==
    /\ runner.phase # "none"
    /\ sessionsDir.call = Null
    /\ sessionsDir' = deleteSessionsOlderThan(sessionsDir.entries, hours, includeAll)
    /\ modelFiles' = IF RUN_SESSION \in DOMAIN sessionsDir'.entries
                     THEN modelFiles ELSE <<>>
    /\ UNCHANGED <<storeVars, creators, runner, execs, writes, resume, recheck,
                   capture, bridge, heartbeat, pure>>

InitPruneRace ==
    /\ StoreInit
    /\ creators = <<>>
    /\ IdleRunner
    /\ IdleResume
    /\ IdleRecheck
    /\ IdleCapture
    /\ IdleBridge
    /\ IdleHeartbeat
    /\ IdlePure
    /\ \E entry \in RunEntryStates :
          sessionsDir = [entries |-> [e \in {RUN_SESSION} |-> entry],
                         before |-> <<>>, call |-> Null]

NextPruneRace ==
    \/ \E ms \in ModelLists : Len(ms) <= MaxRaceModels /\ InitializeSession(ms)
    \/ \E i \in 1..MaxRaceModels : StartModelExecution(i)
    \/ \E i \in 1..MaxRaceModels : MarkRunning(i)
    \/ \E i \in 1..MaxRaceModels, o \in OracleOutcomes : RunOracleSettles(i, o)
    \/ \E i \in 1..MaxRaceModels : MarkCompleted(i)
    \/ \E i \in 1..MaxRaceModels : MarkError(i)
    \/ \E i \in 1..MaxRaceModels : EndStream(i)
    \/ Aggregate
    \/ \E hours \in HoursWindows, includeAll \in BOOLEAN :
          PruneDuringRun(hours, includeAll)

SpecPruneRace == InitPruneRace /\ [][NextPruneRace]_vars

\* C31: a prune never removes the directory of a session that is in flight,
\* and a session that receives a model-record update after a prune still has
\* its metadata file and its log file
C31_PruneSparesSessionInFlight ==
    /\ inFlight => hasMetaAndLog
    /\ (\E m \in DOMAIN modelFiles : modelFiles[m].status # "pending")
          => hasMetaAndLog
InitReattach == Init

NextReattach ==
    \/ PickTarget
    \/ ResumeBrowserSessionViaNewChrome
    \/ EnsureConversationOpen
    \/ OpenConversationFromSidebar
    \/ CallReturns

SpecReattach == InitReattach /\ [][NextReattach]_vars
====
